---- MODULE Spec2Model ----
(***************************************************************************)
(* A model of the checklist bot (src/bot.py): the JSON store and its       *)
(* load/save, the Task/Checklist model, ensure_user_exists and             *)
(* is_user_premium, the command handlers, the callback dispatcher, the     *)
(* payment handler and the daily reset run by the scheduler thread.        *)
(*                                                                         *)
(* Strings that the code splits or joins (command arguments, checklist     *)
(* names, callback tokens) are sequences of atoms; "_" and " " are atoms   *)
(* of their own, every other atom is an indivisible run of characters that *)
(* holds neither.  A dict is a function whose DOMAIN is its set of keys.   *)
(***************************************************************************)
EXTENDS Integers, Sequences, FiniteSets, TLC

VARIABLES
    fs,        \* the files: tasks.json, tasks.json.tmp, the backups
    now,       \* the wall clock (datetime.now(), time.time())
    nextId,    \* the number of uuid4 values drawn so far
    chats,     \* the users whose chat holds messages (buttons) of the bot
    offers,    \* the users who were shown the plans (hold buy buttons)
    sched,     \* the scheduler thread inside reset_tasks
    thr,       \* handler threads at load/save granularity (SpecRace, SpecSave)
    last       \* what the last handler invocation did and answered

vars == <<fs, now, nextId, chats, offers, sched, thr, last>>

----------------------------------------------------------------------------
(* Bounds of the model *)

NUsers == 1
MaxTasks == 2
MaxTick == 1
NChunks == 2
NLimitNames == 10
NRaceUsers == 2

Users == 1..NUsers

RaceUsers == 1..NRaceUsers

(* Program constants *)

None == -1
MaxChecklists == 10
MaxNameLen == 50
DurationDays == 30

----------------------------------------------------------------------------
(* Strings as sequences of atoms *)

Daily == <<"Daily">>

AtomLen(a) ==
    CASE a = "Daily" -> 5
      [] a = "Work" -> 4
      [] a = "work" -> 4
      [] a = "N50" -> MaxNameLen
      [] a = "N51" -> MaxNameLen + 1
      [] OTHER -> 1

(* a length that counts the pieces of the string, not its characters *)
StrLenPieces(s) == Len(s)

RECURSIVE StrLen(_)
StrLen(s) == IF s = <<>> THEN 0 ELSE AtomLen(Head(s)) + StrLen(Tail(s))

RECURSIVE Join(_)
Join(args) ==
    IF Len(args) = 0 THEN <<>>
    ELSE IF Len(args) = 1 THEN args[1]
    ELSE args[1] \o <<" ">> \o Join(Tail(args))

RECURSIVE Split(_, _, _)
SplitAt(s, sep, maxsplit, i) ==
    <<SubSeq(s, 1, i - 1)>> \o Split(SubSeq(s, i + 1, Len(s)), sep, maxsplit - 1)

Split(s, sep, maxsplit) ==
    IF maxsplit = 0 \/ ~(\E i \in 1..Len(s) : s[i] = sep)
    THEN <<s>>
    ELSE SplitAt(s, sep, maxsplit,
                 CHOOSE k \in 1..Len(s) : s[k] = sep /\ \A j \in 1..(k - 1) : s[j] # sep)

StartsWith(s, p) == Len(s) >= Len(p) /\ SubSeq(s, 1, Len(p)) = p

Key(chat_id) == ToString(chat_id)

IntOf(user_id) == CHOOSE u \in Users \cup RaceUsers : ToString(u) = user_id

----------------------------------------------------------------------------
(* Dicts *)

EmptyDict == <<>>

Has(d, k) == k \in DOMAIN d

Put(d, k, v) == [x \in (DOMAIN d) \cup {k} |-> IF x = k THEN v ELSE d[x]]

Del(d, k) == [x \in (DOMAIN d) \ {k} |-> d[x]]

----------------------------------------------------------------------------
(* Task and Checklist *)

(* a task whose id is always the same *)
NewTaskSameId(text, n, t) ==
    [id |-> <<"1">>, text |-> text, created_at |-> t, completed |-> FALSE]

NewTask(text, n, t) ==
    [id |-> <<ToString(n)>>, text |-> text, created_at |-> t, completed |-> FALSE]

NewChecklist(name) == [name |-> name, tasks |-> <<>>]

ChecklistAddTask(cl, text, n, t) ==
    [cl EXCEPT !.tasks = Append(@, NewTask(text, n, t))]

HasTask(cl, task_id) == \E i \in 1..Len(cl.tasks) : cl.tasks[i].id = task_id

FirstIdx(cl, task_id) ==
    CHOOSE i \in 1..Len(cl.tasks) :
        cl.tasks[i].id = task_id /\ \A j \in 1..(i - 1) : cl.tasks[j].id # task_id

(* a toggle_task that sets the flag and never clears it *)
ToggleFlipBroken(cl, task_id) ==
    IF HasTask(cl, task_id)
    THEN [cl EXCEPT !.tasks[FirstIdx(cl, task_id)].completed = TRUE]
    ELSE cl

ToggleTask(cl, task_id) ==
    IF HasTask(cl, task_id)
    THEN [cl EXCEPT !.tasks[FirstIdx(cl, task_id)].completed = ~@]
    ELSE cl

RemoveTask(cl, task_id) ==
    IF HasTask(cl, task_id)
    THEN [cl EXCEPT !.tasks = SubSeq(@, 1, FirstIdx(cl, task_id) - 1)
                              \o SubSeq(@, FirstIdx(cl, task_id) + 1, Len(@))]
    ELSE cl

GetProgress(cl) ==
    <<Cardinality({i \in 1..Len(cl.tasks) : cl.tasks[i].completed}), Len(cl.tasks)>>

(* a reset_all that flips each flag instead of clearing it *)
ResetAllFlips(cl) ==
    [cl EXCEPT !.tasks = [i \in 1..Len(cl.tasks) |-> [cl.tasks[i] EXCEPT !.completed = ~@]]]

ResetAll(cl) ==
    [cl EXCEPT !.tasks = [i \in 1..Len(cl.tasks) |-> [cl.tasks[i] EXCEPT !.completed = FALSE]]]

----------------------------------------------------------------------------
(* JSON.  json.dump writes a dict as an object, a list as an array, True   *)
(* and False as true and false, None as null, a str as a string and an int *)
(* as a number; json.load reads them back.  What Python type a value has   *)
(* is known from where it stands in the table.                             *)

Json(t, v) == [t |-> t, v |-> v]

(* the kind of the value under key k of a dict of this kind *)
KindOf(kind, k) ==
    IF kind = "table" THEN "user"
    ELSE IF kind = "checklists" THEN "checklist"
    ELSE IF kind = "user" /\ k \in {"checklists", "settings"} THEN k
    ELSE IF kind = "user" /\ k = "tasks" THEN "strs"
    ELSE IF kind = "user" /\ k = "done" THEN "ints"
    ELSE IF kind = "checklist" /\ k = "tasks" THEN "tasks"
    ELSE IF k \in {"is_premium", "completed", "notifications_enabled"} THEN "bool"
    ELSE IF k = "premium_expires" THEN "expiry"
    ELSE "str"

RECURSIVE JsonDump(_, _)
JsonDump(kind, v) ==
    IF kind \in {"table", "user", "checklists", "checklist", "task", "settings"}
    THEN Json("object", [k \in DOMAIN v |-> JsonDump(KindOf(kind, k), v[k])])
    ELSE IF kind \in {"tasks", "strs", "ints"}
    THEN Json("array", [i \in 1..Len(v) |->
                          JsonDump(IF kind = "tasks" THEN "task"
                                   ELSE IF kind = "strs" THEN "str" ELSE "int", v[i])])
    ELSE IF kind = "bool" THEN Json(IF v THEN "true" ELSE "false", 0)
    ELSE IF kind = "expiry" /\ v = None THEN Json("null", 0)
    ELSE IF kind = "int" THEN Json("number", v)
    ELSE Json("string", v)

(* a json.load that reads null as the number 0 *)
RECURSIVE JsonLoadNullAsZero(_)
JsonLoadNullAsZero(j) ==
    IF j.t = "object" THEN [k \in DOMAIN j.v |-> JsonLoadNullAsZero(j.v[k])]
    ELSE IF j.t = "array" THEN [i \in 1..Len(j.v) |-> JsonLoadNullAsZero(j.v[i])]
    ELSE IF j.t = "true" THEN TRUE
    ELSE IF j.t = "false" THEN FALSE
    ELSE IF j.t = "null" THEN 0
    ELSE j.v

RECURSIVE JsonLoad(_)
JsonLoad(j) ==
    IF j.t = "object" THEN [k \in DOMAIN j.v |-> JsonLoad(j.v[k])]
    ELSE IF j.t = "array" THEN [i \in 1..Len(j.v) |-> JsonLoad(j.v[i])]
    ELSE IF j.t = "true" THEN TRUE
    ELSE IF j.t = "false" THEN FALSE
    ELSE IF j.t = "null" THEN None
    ELSE j.v

----------------------------------------------------------------------------
(* The files.  A file is chunks[1..NChunks]; a chunk is <<>> while nothing *)
(* is written there and <<data>> once that part of the text of the table   *)
(* data is: the text is JsonDump("table", data), which JsonLoad reads back *)
(* as data.  utf8 is false for a file whose bytes do not decode as UTF-8.  *)

NoFile == [exists |-> FALSE, chunks |-> [i \in 1..NChunks |-> <<>>], utf8 |-> TRUE]

EmptyFile == [exists |-> TRUE, chunks |-> [i \in 1..NChunks |-> <<>>], utf8 |-> TRUE]

FullFile(data) ==
    [exists |-> TRUE, chunks |-> [i \in 1..NChunks |-> <<data>>], utf8 |-> TRUE]

Parseable(f) ==
    /\ f.exists
    /\ \A i \in 1..NChunks : f.chunks[i] # <<>> /\ f.chunks[i] = f.chunks[1]

(* load_data: FileNotFoundError; a UnicodeDecodeError raised by the read   *)
(* (caught by "except Exception", no backup); the table; JSONDecodeError   *)
(* (the file is renamed to a backup named by the second of the clock)      *)
LoadData(f, t) ==
    IF ~f.file.exists
    THEN [data |-> EmptyDict, fs |-> f]
    ELSE IF ~f.file.utf8
    THEN [data |-> EmptyDict, fs |-> f]
    ELSE IF Parseable(f.file)
    THEN [data |-> f.file.chunks[1][1], fs |-> f]
    ELSE [data |-> EmptyDict,
          fs |-> [f EXCEPT !.file = NoFile, !.backups = Put(@, t, f.file.chunks)]]

(* save_data run to its end by one thread alone: the temporary file is     *)
(* written whole and renamed over tasks.json; when a write raises, the     *)
(* except branch logs it and removes the temporary file.                   *)
SaveData(f, data) ==
    IF f.write_fails
    THEN [f EXCEPT !.tmp = NoFile]
    ELSE [f EXCEPT !.file = FullFile(data), !.tmp = NoFile]

World(f, n) == [fs |-> f, nextId |-> n]

----------------------------------------------------------------------------
(* ensure_user_exists and is_user_premium *)

DefaultSettings ==
    [daily_reset_time |-> "08:00", timezone |-> "UTC", notifications_enabled |-> TRUE]

DefaultUser ==
    [is_premium |-> FALSE,
     premium_expires |-> None,
     checklists |-> Put(EmptyDict, Daily, NewChecklist(Daily)),
     settings |-> DefaultSettings]

Get(d, k, default) == IF Has(d, k) THEN d[k] ELSE default

InSeq(x, s) == \E i \in 1..Len(s) : s[i] = x

(* a migration that reads the done indices as counted from one *)
LegacyDailyFromOne(old_tasks, old_done, n, t) ==
    [name |-> Daily,
     tasks |-> [i \in 1..Len(old_tasks) |->
                  [NewTask(old_tasks[i], n + i, t) EXCEPT !.completed = InSeq(i, old_done)]]]

(* the legacy shape: "tasks" (strings) and "done" (indices) become "Daily" *)
LegacyDaily(old_tasks, old_done, n, t) ==
    [name |-> Daily,
     tasks |-> [i \in 1..Len(old_tasks) |->
                  [NewTask(old_tasks[i], n + i, t) EXCEPT !.completed = InSeq(i - 1, old_done)]]]

WithDefault(d, k, v) == IF Has(d, k) THEN d ELSE Put(d, k, v)

(* a migration that rebuilds "Daily" whether or not "checklists" is there *)
MigrateChecklistsAlways(user_data, n, t) ==
    Del(Del(Put(user_data, "checklists",
                Put(EmptyDict, Daily,
                    LegacyDaily(Get(user_data, "tasks", <<>>),
                                Get(user_data, "done", <<>>), n, t))),
            "tasks"), "done")

MigrateChecklists(user_data, n, t) ==
    IF Has(user_data, "checklists") THEN user_data
    ELSE Del(Del(Put(user_data, "checklists",
                     Put(EmptyDict, Daily,
                         LegacyDaily(Get(user_data, "tasks", <<>>),
                                     Get(user_data, "done", <<>>), n, t))),
                 "tasks"), "done")

MigrateUser(user_data, n, t) ==
    MigrateChecklists(
        WithDefault(WithDefault(WithDefault(user_data, "is_premium", FALSE),
                                "premium_expires", None),
                    "settings", DefaultSettings),
        n, t)

IdsDrawnByMigration(data, k) ==
    IF Has(data, k) /\ ~Has(data[k], "checklists")
    THEN Len(Get(data[k], "tasks", <<>>))
    ELSE 0

(* an ensure_user_exists that saves a table holding this user alone *)
EnsureSavedAlone(w, k, ld, user) ==
    [w |-> World(SaveData(ld.fs, Put(EmptyDict, k, user)),
                 w.nextId + IdsDrawnByMigration(ld.data, k)),
     user_data |-> user]

EnsureSaved(w, k, ld, user) ==
    [w |-> World(SaveData(ld.fs, Put(ld.data, k, user)),
                 w.nextId + IdsDrawnByMigration(ld.data, k)),
     user_data |-> user]

EnsureLoaded(w, k, ld) ==
    EnsureSaved(w, k, ld, IF ~Has(ld.data, k) THEN DefaultUser
                          ELSE MigrateUser(ld.data[k], w.nextId, now))

EnsureUserExists(w, chat_id) == EnsureLoaded(w, Key(chat_id), LoadData(w.fs, now))

Expired(user_data) ==
    user_data.premium_expires # None /\ now > user_data.premium_expires

(* an expiry branch that does not write the cleared flags back *)
ExpireUserUnsaved(w, k, ld) == w

(* the expiry branch: the table is loaded again, the flags cleared, saved *)
ExpireUser(w, k, ld) ==
    [w EXCEPT !.fs = SaveData(ld.fs, [ld.data EXCEPT ![k] =
                         Put(Put(@, "is_premium", FALSE), "premium_expires", None)])]

PremiumOf(e, k) ==
    IF ~e.user_data.is_premium
    THEN [w |-> e.w, premium |-> FALSE]
    ELSE IF Expired(e.user_data)
    THEN [w |-> ExpireUser(e.w, k, LoadData(e.w.fs, now)), premium |-> FALSE]
    ELSE [w |-> e.w, premium |-> TRUE]

IsUserPremium(w, chat_id) == PremiumOf(EnsureUserExists(w, chat_id), Key(chat_id))

----------------------------------------------------------------------------
(* Task.from_dict / Checklist.from_dict (to_dict writes the same fields) *)

TaskFromDict(td) ==
    [id |-> td.id, text |-> td.text, created_at |-> td.created_at,
     completed |-> Get(td, "completed", FALSE)]

ChecklistFromDict(cd) ==
    [name |-> cd.name,
     tasks |-> [i \in 1..Len(Get(cd, "tasks", <<>>)) |-> TaskFromDict(Get(cd, "tasks", <<>>)[i])]]

----------------------------------------------------------------------------
(* Views: what rendering a view does to the store *)

GetChecklistMarkup(w, chat_id, checklist_name) ==
    IF ~Has(EnsureUserExists(w, chat_id).user_data.checklists, checklist_name)
    THEN EnsureUserExists(w, chat_id).w
    ELSE IsUserPremium(EnsureUserExists(w, chat_id).w, chat_id).w

GetChecklistListMarkup(w, chat_id) ==
    IsUserPremium(EnsureUserExists(w, chat_id).w, chat_id).w

SendChecklistMessage(w, chat_id, checklist_name) ==
    IF ~Has(EnsureUserExists(w, chat_id).user_data.checklists, checklist_name)
    THEN [w |-> EnsureUserExists(w, chat_id).w, found |-> FALSE]
    ELSE [w |-> GetChecklistMarkup(EnsureUserExists(w, chat_id).w, chat_id, checklist_name),
          found |-> TRUE]

----------------------------------------------------------------------------
(* Command handlers.  A result is the world after the handler, the kind of *)
(* answer the user got and what the handler's premium check returned.      *)

PremStr(b) == IF b THEN "true" ELSE "false"

Result(w, resp, prem) == [w |-> w, resp |-> resp, prem |-> prem, invoice |-> <<>>]

(* an answer after a premium check p *)
Answer(p, resp) == Result(p.w, resp, PremStr(p.premium))

(* one answer for a premium user, another for a free one *)
AnswerBy(p, yes, no) == Answer(p, IF p.premium THEN yes ELSE no)

StartCmd(w, chat_id) == Result(EnsureUserExists(w, chat_id).w, "welcome", "none")

HelpCmd(w, chat_id) == Answer(IsUserPremium(w, chat_id), "help")

(* add_task from the choice of the checklist on; data[str(chat_id)] or its *)
(* "checklists" raises KeyError when the table loaded does not hold what   *)
(* ensure_user_exists returned, and the dispatcher's error handler answers *)
AddTaskTo(k, user_data, data, p, checklist_name, task_text) ==
    IF ~Has(user_data.checklists, checklist_name)
    THEN Answer(p, "no_such_checklist")
    ELSE IF ~Has(data, k) \/ ~Has(Get(data, k, EmptyDict), "checklists")
    THEN Answer(p, "error")
    ELSE Result(World(SaveData(p.w.fs,
                    [data EXCEPT ![k].checklists =
                        Put(@, checklist_name,
                            ChecklistAddTask(
                                ChecklistFromDict(user_data.checklists[checklist_name]),
                                task_text, p.w.nextId + 1, now))]),
                      p.w.nextId + 1),
                "added", PremStr(p.premium))

(* a choice of the checklist that does not ask for premium *)
NamesChecklistFree(p, user_data, args) ==
    Len(args) >= 2 /\ Has(user_data.checklists, args[1])

(* a premium user's first word names one of the user's checklists *)
NamesChecklist(p, user_data, args) ==
    p.premium /\ Len(args) >= 2 /\ Has(user_data.checklists, args[1])

AddTaskChecked(k, user_data, data, p, args) ==
    IF NamesChecklist(p, user_data, args)
    THEN AddTaskTo(k, user_data, data, p, args[1], Join(Tail(args)))
    ELSE AddTaskTo(k, user_data, data, p, Daily, Join(args))

(* data = load_data() comes before the premium check *)
AddTaskLoaded(chat_id, user_data, n, ld, args) ==
    AddTaskChecked(Key(chat_id), user_data, ld.data,
                   IsUserPremium(World(ld.fs, n), chat_id), args)

AddTaskEnsured(chat_id, e, args) ==
    IF args = <<>>
    THEN Answer(IsUserPremium(e.w, chat_id), "usage")
    ELSE AddTaskLoaded(chat_id, e.user_data, e.w.nextId, LoadData(e.w.fs, now), args)

AddTaskCmd(w, chat_id, args) == AddTaskEnsured(chat_id, EnsureUserExists(w, chat_id), args)

ShowChecklistChecked(chat_id, user_data, p, args) ==
    IF ~p.premium
    THEN Result(SendChecklistMessage(p.w, chat_id, Daily).w, "checklist", "false")
    ELSE IF args = <<>>
    THEN Result(GetChecklistListMarkup(p.w, chat_id), "select_list", "true")
    ELSE IF Has(user_data.checklists, Join(args))
    THEN Result(SendChecklistMessage(p.w, chat_id, Join(args)).w, "checklist", "true")
    ELSE Result(p.w, "not_found", "true")

ShowChecklistCmd(w, chat_id, args) ==
    ShowChecklistChecked(chat_id, EnsureUserExists(w, chat_id).user_data,
                         IsUserPremium(EnsureUserExists(w, chat_id).w, chat_id), args)

(* a limit test that lets an eleventh checklist through *)
AtLimitOffByOne(user_data) == Cardinality(DOMAIN user_data.checklists) > MaxChecklists

(* new_checklist past its checks: load, add the empty checklist, save *)
CreateChecklist(w, k, ld, checklist_name) ==
    [w EXCEPT !.fs = SaveData(ld.fs, [ld.data EXCEPT ![k].checklists =
                         Put(@, checklist_name, NewChecklist(checklist_name))])]

AtLimit(user_data) == Cardinality(DOMAIN user_data.checklists) >= MaxChecklists

NewChecklistChecked(k, user_data, p, args, checklist_name) ==
    IF ~p.premium THEN Result(p.w, "upsell", "false")
    ELSE IF args = <<>> THEN Result(p.w, "usage", "true")
    ELSE IF StrLen(checklist_name) > MaxNameLen THEN Result(p.w, "name_too_long", "true")
    ELSE IF Has(user_data.checklists, checklist_name)
    THEN Result(p.w, "already_exists", "true")
    ELSE IF AtLimit(user_data)
    THEN Result(p.w, "limit_reached", "true")
    ELSE Result(CreateChecklist(p.w, k, LoadData(p.w.fs, now), checklist_name),
                "created", "true")

NewChecklistCmd(w, chat_id, args) ==
    NewChecklistChecked(Key(chat_id), EnsureUserExists(w, chat_id).user_data,
                        IsUserPremium(EnsureUserExists(w, chat_id).w, chat_id),
                        args, Join(args))

DeleteChecklistChecked(user_data, p, args, checklist_name) ==
    IF ~p.premium THEN Result(p.w, "upsell", "false")
    ELSE IF args = <<>>
    THEN IF DOMAIN user_data.checklists \subseteq {Daily}
         THEN Result(p.w, "nothing_to_delete", "true")
         ELSE Result(p.w, "select_delete", "true")
    ELSE IF checklist_name = Daily THEN Result(p.w, "daily_protected", "true")
    ELSE IF ~Has(user_data.checklists, checklist_name)
    THEN Result(p.w, "not_found", "true")
    ELSE Result(p.w, "confirm_prompt", "true")

DeleteChecklistCmd(w, chat_id, args) ==
    DeleteChecklistChecked(EnsureUserExists(w, chat_id).user_data,
                           IsUserPremium(EnsureUserExists(w, chat_id).w, chat_id),
                           args, Join(args))

UpgradePremium(w, chat_id) ==
    AnswerBy(IsUserPremium(EnsureUserExists(w, chat_id).w, chat_id), "already_premium", "plans")

StatsCmd(w, chat_id) ==
    AnswerBy(IsUserPremium(EnsureUserExists(w, chat_id).w, chat_id), "stats", "upsell")

----------------------------------------------------------------------------
(* Payments *)

Plans == {"basic", "standard", "premium", "ultimate"}

(* send_invoice_for_plan: the payload of each plan's invoice *)
PlanPayload(plan_type) ==
    CASE plan_type = <<"basic">> -> "premium_basic_7d"
      [] plan_type = <<"standard">> -> "premium_standard_30d"
      [] plan_type = <<"premium">> -> "premium_premium_90d"
      [] plan_type = <<"ultimate">> -> "premium_ultimate_365d"
      [] OTHER -> "none"

(* the days each plan is sold for (the plan table and the shadowed handler) *)
PlanDays(payload) ==
    CASE payload = "premium_basic_7d" -> 7
      [] payload = "premium_standard_30d" -> 30
      [] payload = "premium_premium_90d" -> 90
      [] payload = "premium_ultimate_365d" -> 365
      [] OTHER -> 7

PlanFeatures(payload) ==
    CASE payload = "premium_basic_7d" -> "basic"
      [] payload = "premium_standard_30d" -> "standard"
      [] payload = "premium_premium_90d" -> "premium"
      [] payload = "premium_ultimate_365d" -> "ultimate"
      [] OTHER -> "basic"

Payloads == {PlanPayload(<<pl>>) : pl \in Plans}

(* the definition of successful_payment_callback in effect (the second one) *)
GrantedDays(payload) == IF payload = "premium_1month" THEN DurationDays ELSE DurationDays

PaidUser(user_data, payload) ==
    Put(Put(user_data, "is_premium", TRUE), "premium_expires", now + GrantedDays(payload))

PaymentLoaded(w, k, ld, payload) ==
    Result([w EXCEPT !.fs = SaveData(ld.fs, Put(ld.data, k,
                                PaidUser(Get(ld.data, k, EmptyDict), payload)))],
           "payment_successful", "none")

SuccessfulPaymentCallback(w, chat_id, payload) ==
    PaymentLoaded(w, Key(chat_id), LoadData(w.fs, now), payload)

----------------------------------------------------------------------------
(* Callback tokens and button_handler *)

Tok2(a, b) == <<a, "_", b>>

TogglePrefix == <<"toggle", "_">>
DeleteModePrefix == <<"delete", "_", "mode", "_">>
DeleteTaskPrefix == <<"delete", "_", "task", "_">>
ConfirmDeletePrefix == <<"confirm", "_", "delete", "_">>
DeleteConfirmedPrefix == <<"delete", "_", "confirmed", "_">>

ToggleToken(name, task_id) == TogglePrefix \o name \o <<"_">> \o task_id
DeleteTaskToken(name, task_id) == DeleteTaskPrefix \o name \o <<"_">> \o task_id
DeleteConfirmedToken(name) == DeleteConfirmedPrefix \o name
(* the branches of button_handler, in the order of the source *)

(* a buy_ branch that writes the store *)
BuyButtonWrites(w, plan_type) ==
    Result([w EXCEPT !.fs = SaveData(w.fs, EmptyDict)], "invoice_sent", "none")

BuyButton(w, plan_type) ==
    IF PlanPayload(plan_type) = "none"
    THEN Result(w, "invoice_error", "none")
    ELSE [Result(w, "invoice_sent", "none") EXCEPT !.invoice = <<PlanPayload(plan_type)>>]

ShowStatsButton(user_data, p) ==
    IF ~p.premium THEN Result(p.w, "upsell", "false")
    ELSE IF ~Has(user_data, "checklists") THEN Result(p.w, "error", "true")
    ELSE Result(p.w, "stats", "true")

SaveChecklist(w, k, data, checklist_name, cl) ==
    [w EXCEPT !.fs = SaveData(w.fs, [data EXCEPT ![k].checklists = Put(@, checklist_name, cl)])]

ToggleButton(w, chat_id, data, user_data, parts) ==
    IF Len(parts) < 3 THEN Result(w, "none", "none")
    ELSE IF ~Has(user_data, "checklists") THEN Result(w, "error", "none")
    ELSE IF ~Has(user_data.checklists, parts[2]) THEN Result(w, "none", "none")
    ELSE IF ~HasTask(ChecklistFromDict(user_data.checklists[parts[2]]), parts[3])
    THEN Result(w, "none", "none")
    ELSE Result(GetChecklistMarkup(
                    SaveChecklist(w, Key(chat_id), data, parts[2],
                        ToggleTask(ChecklistFromDict(user_data.checklists[parts[2]]), parts[3])),
                    chat_id, parts[2]),
                "toggled", "none")

ShowListButton(m) == Result(m.w, IF m.found THEN "checklist" ELSE "not_found", "none")

DeleteModeButton(user_data, p, checklist_name) ==
    IF ~p.premium THEN Result(p.w, "upsell", "false")
    ELSE IF ~Has(user_data, "checklists") THEN Result(p.w, "error", "true")
    ELSE IF ~Has(user_data.checklists, checklist_name) THEN Result(p.w, "none", "true")
    ELSE IF ChecklistFromDict(user_data.checklists[checklist_name]).tasks = <<>>
    THEN Result(p.w, "no_tasks", "true")
    ELSE Result(p.w, "select_task", "true")

DeleteTaskButton(chat_id, data, user_data, p, parts) ==
    IF ~p.premium THEN Result(p.w, "none", "false")
    ELSE IF Len(parts) < 4 THEN Result(p.w, "none", "true")
    ELSE IF ~Has(user_data, "checklists") THEN Result(p.w, "error", "true")
    ELSE IF ~Has(user_data.checklists, parts[3]) THEN Result(p.w, "none", "true")
    ELSE IF ~HasTask(ChecklistFromDict(user_data.checklists[parts[3]]), parts[4])
    THEN Result(p.w, "none", "true")
    ELSE Result(SendChecklistMessage(
                    SaveChecklist(p.w, Key(chat_id), data, parts[3],
                        RemoveTask(ChecklistFromDict(user_data.checklists[parts[3]]), parts[4])),
                    chat_id, parts[3]).w,
                "task_deleted", "true")

(* a delete_confirmed_ branch that skips the premium check *)
DeleteConfirmedUngated(k, data, user_data, p, checklist_name) ==
    IF ~Has(user_data, "checklists") THEN Result(p.w, "error", PremStr(p.premium))
    ELSE IF Has(user_data.checklists, checklist_name) /\ checklist_name # Daily
    THEN Result([p.w EXCEPT !.fs = SaveData(p.w.fs,
                     [data EXCEPT ![k].checklists = Del(@, checklist_name)])],
                "checklist_deleted", PremStr(p.premium))
    ELSE Result(p.w, "could_not_delete", PremStr(p.premium))

(* a delete_confirmed_ branch that does not protect Daily *)
DeleteConfirmedAnyName(k, data, user_data, p, checklist_name) ==
    IF ~p.premium THEN Result(p.w, "none", "false")
    ELSE IF ~Has(user_data, "checklists") THEN Result(p.w, "error", "true")
    ELSE IF Has(user_data.checklists, checklist_name)
    THEN Result([p.w EXCEPT !.fs = SaveData(p.w.fs,
                     [data EXCEPT ![k].checklists = Del(@, checklist_name)])],
                "checklist_deleted", "true")
    ELSE Result(p.w, "could_not_delete", "true")

DeleteConfirmedButton(k, data, user_data, p, checklist_name) ==
    IF ~p.premium THEN Result(p.w, "none", "false")
    ELSE IF ~Has(user_data, "checklists") THEN Result(p.w, "error", "true")
    ELSE IF Has(user_data.checklists, checklist_name) /\ checklist_name # Daily
    THEN Result([p.w EXCEPT !.fs = SaveData(p.w.fs,
                     [data EXCEPT ![k].checklists = Del(@, checklist_name)])],
                "checklist_deleted", "true")
    ELSE Result(p.w, "could_not_delete", "true")

NotificationsEnabled(user_data) ==
    Get(Get(user_data, "settings", EmptyDict), "notifications_enabled", TRUE)

ToggleNotificationsButton(k, data, user_data, p) ==
    IF ~p.premium THEN Result(p.w, "none", "false")
    ELSE Result([p.w EXCEPT !.fs = SaveData(p.w.fs,
                     [data EXCEPT ![k] = Put(@, "settings",
                         Put(Get(user_data, "settings", EmptyDict),
                             "notifications_enabled", ~NotificationsEnabled(user_data)))])],
                "notifications_toggled", "true")

ButtonDispatch(w, chat_id, callback_data, data, user_data) ==
    IF callback_data = <<"noop">> THEN Result(w, "none", "none")
    ELSE IF StartsWith(callback_data, <<"buy", "_">>)
    THEN BuyButton(w, Split(callback_data, "_", 1)[2])
    ELSE IF callback_data = Tok2("cancel", "upgrade")
    THEN Result(w, "upgrade_cancelled", "none")
    ELSE IF callback_data = Tok2("show", "stats")
    THEN ShowStatsButton(user_data, IsUserPremium(w, chat_id))
    ELSE IF callback_data = Tok2("close", "stats")
    THEN Result(w, "closed", "none")
    ELSE IF StartsWith(callback_data, TogglePrefix)
    THEN ToggleButton(w, chat_id, data, user_data, Split(callback_data, "_", 2))
    ELSE IF StartsWith(callback_data, <<"showlist", "_">>)
    THEN ShowListButton(SendChecklistMessage(w, chat_id, Split(callback_data, "_", 1)[2]))
    ELSE IF StartsWith(callback_data, <<"refresh", "_">>)
    THEN Result(GetChecklistMarkup(w, chat_id, Split(callback_data, "_", 1)[2]),
                "checklist", "none")
    ELSE IF StartsWith(callback_data, <<"close", "_">>)
    THEN Result(w, "closed", "none")
    ELSE IF StartsWith(callback_data, DeleteModePrefix)
    THEN DeleteModeButton(user_data, IsUserPremium(w, chat_id),
                          Split(callback_data, "_", 2)[3])
    ELSE IF StartsWith(callback_data, DeleteTaskPrefix)
    THEN DeleteTaskButton(chat_id, data, user_data, IsUserPremium(w, chat_id),
                          Split(callback_data, "_", 3))
    ELSE IF StartsWith(callback_data, ConfirmDeletePrefix)
    THEN Result(w, "confirm_prompt", "none")
    ELSE IF StartsWith(callback_data, DeleteConfirmedPrefix)
    THEN DeleteConfirmedButton(Key(chat_id), data, user_data, IsUserPremium(w, chat_id),
                               Split(callback_data, "_", 2)[3])
    ELSE IF callback_data = Tok2("cancel", "delete")
    THEN Result(w, "deletion_cancelled", "none")
    ELSE IF callback_data = <<"create", "_", "new", "_", "list">>
    THEN AnswerBy(IsUserPremium(w, chat_id), "usage", "upsell")
    ELSE IF callback_data = <<"show", "_", "all", "_", "lists">>
    THEN Result(GetChecklistListMarkup(w, chat_id), "select_list", "none")
    ELSE IF callback_data = Tok2("upgrade", "prompt")
    THEN UpgradePremium(w, chat_id)
    ELSE IF callback_data = <<"settings">>
    THEN AnswerBy(IsUserPremium(w, chat_id), "settings", "upsell")
    ELSE IF callback_data = Tok2("close", "settings")
    THEN Result(w, "closed", "none")
    ELSE IF callback_data = Tok2("toggle", "notifications")
    THEN ToggleNotificationsButton(Key(chat_id), data, user_data, IsUserPremium(w, chat_id))
    ELSE Result(w, "unknown_action", "none")

(* data = load_data() and user_data = data.get(str(chat_id), {}) come first *)
ButtonLoaded(chat_id, callback_data, n, ld) ==
    ButtonDispatch(World(ld.fs, n), chat_id, callback_data, ld.data,
                   Get(ld.data, Key(chat_id), EmptyDict))

ButtonHandler(w, chat_id, callback_data) ==
    ButtonLoaded(chat_id, callback_data, w.nextId, LoadData(w.fs, now))

----------------------------------------------------------------------------
(* reset_tasks, one user of its loop *)

ResetChecklists(checklists) ==
    [n \in DOMAIN checklists |-> ResetAll(ChecklistFromDict(checklists[n]))]

(* a record with a checklist Checklist.from_dict cannot read: data["name"] *)
(* raises KeyError (the records drawn here hold that checklist alone)      *)
Malformed(user_data) ==
    /\ Has(user_data, "checklists")
    /\ \E n \in DOMAIN user_data.checklists : ~Has(user_data.checklists[n], "name")

(* the exception leaves the loop body for this user at from_dict *)
ResetUserData(user_data) ==
    IF Has(user_data, "checklists") /\ ~Malformed(user_data)
    THEN [user_data EXCEPT !.checklists = ResetChecklists(@)]
    ELSE user_data

(* a loop body that resets the users it notifies and no others *)
ResetOneUserIfNotified(w, data, user_id) ==
    IF ~Malformed(data[user_id]) /\ NotificationsEnabled(data[user_id])
    THEN [w |-> IsUserPremium(w, IntOf(user_id)).w,
          data |-> [data EXCEPT ![user_id] = ResetUserData(@)]]
    ELSE [w |-> w, data |-> data]

(* the body of the loop for one user: the flags in the loaded table, and   *)
(* is_user_premium (which loads and saves the file) to word the message;   *)
(* an exception before the notification is logged and the loop continues   *)
ResetOneUser(w, data, user_id) ==
    [w |-> IF ~Malformed(data[user_id]) /\ NotificationsEnabled(ResetUserData(data[user_id]))
           THEN IsUserPremium(w, IntOf(user_id)).w
           ELSE w,
     data |-> [data EXCEPT ![user_id] = ResetUserData(@)]]

RECURSIVE ResetLoop(_, _, _)
ResetRest(r, todo) == ResetLoop(r.w, r.data, todo)

(* a loop that an exception in one user's body ends *)
ResetStepStops(w, data, todo, user_id) ==
    IF Malformed(data[user_id]) THEN [w |-> w, data |-> data]
    ELSE ResetRest(ResetOneUser(w, data, user_id), todo \ {user_id})

ResetStep(w, data, todo, user_id) ==
    ResetRest(ResetOneUser(w, data, user_id), todo \ {user_id})

ResetLoop(w, data, todo) ==
    IF todo = {} THEN [w |-> w, data |-> data]
    ELSE ResetStep(w, data, todo, CHOOSE k \in todo : TRUE)

(* a reset_tasks that does not save the table at its end *)
ResetUnsaved(r) == r.w

(* reset_tasks run with no handler in between *)
ResetSaved(r) == [r.w EXCEPT !.fs = SaveData(r.w.fs, r.data)]

ResetLoaded(w, ld) == ResetSaved(ResetLoop([w EXCEPT !.fs = ld.fs], ld.data, DOMAIN ld.data))

ResetTasks(w) == ResetLoaded(w, LoadData(w.fs, now))

----------------------------------------------------------------------------
(* The inputs *)

Work == <<"Work">>
Milk == <<"milk">>

AddArgs == {<<>>, <<Milk>>, <<Work, Milk>>}
NameArgs == {<<>>, <<Work>>}
Names == {Daily} \cup {Join(a) : a \in NameArgs \ {<<>>}}
TaskIds == {<<ToString(n)>> : n \in 1..MaxTasks}

Tokens ==
    {<<"noop">>, Tok2("cancel", "upgrade"), Tok2("show", "stats"), Tok2("close", "stats"),
     Tok2("cancel", "delete"), <<"create", "_", "new", "_", "list">>,
     <<"show", "_", "all", "_", "lists">>, Tok2("upgrade", "prompt"), <<"settings">>,
     Tok2("close", "settings"), Tok2("toggle", "notifications")}
    \cup {Tok2("buy", pl) : pl \in Plans}
    \cup {<<"add", "_">> \o Daily, <<"close", "_">> \o Daily}
    \cup {<<"showlist", "_">> \o n : n \in Names}
    \cup {<<"refresh", "_">> \o n : n \in Names}
    \cup {DeleteModePrefix \o n : n \in Names}
    \cup {ConfirmDeletePrefix \o n : n \in Names}
    \cup {DeleteConfirmedToken(n) : n \in Names}
    \cup {ToggleToken(n, i) : n \in Names, i \in TaskIds}
    \cup {DeleteTaskToken(n, i) : n \in Names, i \in TaskIds}

(* the instants the clock is sampled at: the start, and the days a grant *)
(* made at the start runs out                                            *)
Instants == {0} \cup (DurationDays..(DurationDays + MaxTick))

----------------------------------------------------------------------------
(* The state machine *)

NoFiles == [file |-> NoFile, tmp |-> NoFile, backups |-> EmptyDict, write_fails |-> FALSE]

IdleSched == [pc |-> "idle", data |-> EmptyDict, todo |-> {}, added |-> {}]

(* the answers that only render a view are recorded as "view" *)
ViewResps ==
    {"welcome", "help", "checklist", "select_list", "plans", "closed", "stats",
     "settings", "confirm_prompt", "select_task", "select_delete", "upgrade_cancelled",
     "deletion_cancelled", "invoice_sent", "usage", "unknown_action", "already_premium"}

Did(chat_id, resp) ==
    [user |-> chat_id, resp |-> IF resp \in ViewResps THEN "view" ELSE resp]

W == World(fs, nextId)

(* the table in tasks.json as a reader finds it *)
Stored == LoadData(fs, now).data

Init ==
    /\ fs = NoFiles
    /\ now = 0
    /\ nextId = 0
    /\ chats = {}
    /\ offers = {}
    /\ sched = IdleSched
    /\ thr = EmptyDict
    /\ last = Did(0, "none")

(* one handler run from its first line to its last by the dispatcher *)
Handle(chat_id, r) ==
    /\ r.w.nextId <= MaxTasks
    /\ fs' = r.w.fs
    /\ nextId' = r.w.nextId
    /\ chats' = chats \cup {chat_id}
    /\ offers' = IF r.resp = "plans" THEN offers \cup {chat_id} ELSE offers
    /\ sched' = [sched EXCEPT !.added =
                     IF sched.pc = "idle" THEN @
                     ELSE IF r.resp = "added" THEN @ \cup {<<ToString(r.w.nextId)>>}
                     ELSE @]
    /\ last' = Did(chat_id, r.resp)
    /\ UNCHANGED <<now, thr>>

Start(u) == Handle(u, StartCmd(W, u))

Help(u) == Handle(u, HelpCmd(W, u))

Add(u, args) == Handle(u, AddTaskCmd(W, u, args))

Show(u, args) == Handle(u, ShowChecklistCmd(W, u, args))

NewList(u, args) == Handle(u, NewChecklistCmd(W, u, args))

DeleteList(u, args) == Handle(u, DeleteChecklistCmd(W, u, args))

Upgrade(u) == Handle(u, UpgradePremium(W, u))

Stats(u) == Handle(u, StatsCmd(W, u))

Button(u, token) ==
    /\ u \in chats
    /\ Handle(u, ButtonHandler(W, u, token))

(* a payment follows an invoice, which a user who was shown the plans gets *)
(* by pressing a buy button (the buy_ branch checks and changes nothing)   *)
Payment(u, payload) ==
    /\ u \in offers
    /\ fs' = SuccessfulPaymentCallback(W, u, payload).w.fs
    /\ last' = Did(u, SuccessfulPaymentCallback(W, u, payload).resp)
    /\ UNCHANGED <<now, nextId, chats, offers, sched, thr>>

Tick ==
    /\ \E t \in Instants : t > now /\ now' = t
    /\ last' = Did(0, "tick")
    /\ UNCHANGED <<fs, nextId, chats, offers, sched, thr>>

(* the users reset_tasks sends its notification to *)
Notifiable ==
    {IntOf(k) : k \in {x \in DOMAIN Stored :
                          ~Malformed(Stored[x]) /\ NotificationsEnabled(Stored[x])}}

(* the daily reset with no handler running during it; bot.send_message *)
(* raises for the users in blocked (they blocked the bot, the network  *)
(* failed), which is logged as a warning                               *)
ResetWith(blocked) ==
    /\ sched.pc = "idle"
    /\ ResetTasks(W).nextId <= MaxTasks
    /\ fs' = ResetTasks(W).fs
    /\ nextId' = ResetTasks(W).nextId
    /\ chats' = chats \cup (Notifiable \ blocked)
    /\ last' = Did(0, IF Notifiable \cap blocked = {} THEN "reset_tasks" ELSE "reset_unsent")
    /\ UNCHANGED <<now, offers, sched, thr>>

Reset == ResetWith({})

Next ==
    \/ \E u \in Users : Start(u)
    \/ \E u \in Users : Help(u)
    \/ \E u \in Users, args \in AddArgs : Add(u, args)
    \/ \E u \in Users, args \in NameArgs : Show(u, args)
    \/ \E u \in Users, args \in NameArgs : NewList(u, args)
    \/ \E u \in Users, args \in NameArgs : DeleteList(u, args)
    \/ \E u \in Users : Upgrade(u)
    \/ \E u \in Users : Stats(u)
    \/ \E u \in Users, token \in Tokens : Button(u, token)
    \/ \E u \in Users, payload \in Payloads : Payment(u, payload)
    \/ Tick
    \/ Reset

Spec == Init /\ [][Next]_vars

----------------------------------------------------------------------------
(* The daily reset in its own thread (main: threading.Thread(run_scheduler)) *)
(* while the dispatcher runs handlers: the load, the loop one user at a      *)
(* time, the save.                                                           *)

ResetLoad ==
    /\ sched.pc = "idle"
    /\ fs' = LoadData(fs, now).fs
    /\ sched' = [pc |-> "loop", data |-> Stored, todo |-> DOMAIN Stored, added |-> {}]
    /\ last' = Did(0, "reset_load")
    /\ UNCHANGED <<now, nextId, chats, offers, thr>>

ResetUserDone(user_id, r) ==
    /\ r.w.nextId <= MaxTasks
    /\ fs' = r.w.fs
    /\ nextId' = r.w.nextId
    /\ chats' = IF ~Malformed(r.data[user_id]) /\ NotificationsEnabled(r.data[user_id])
                THEN chats \cup {IntOf(user_id)} ELSE chats
    /\ sched' = [sched EXCEPT !.data = r.data, !.todo = @ \ {user_id}]
    /\ last' = Did(0, IF ~Malformed(r.data[user_id]) /\ NotificationsEnabled(r.data[user_id])
                      THEN "reset_notified" ELSE "reset_user")
    /\ UNCHANGED <<now, offers, thr>>

ResetUser(user_id) ==
    /\ sched.pc = "loop"
    /\ user_id \in sched.todo
    /\ ResetUserDone(user_id, ResetOneUser(W, sched.data, user_id))

ResetSave ==
    /\ sched.pc = "loop"
    /\ sched.todo = {}
    /\ fs' = SaveData(fs, sched.data)
    /\ sched' = [sched EXCEPT !.pc = "idle", !.data = EmptyDict]
    /\ last' = Did(0, "reset_tasks")
    /\ UNCHANGED <<now, nextId, chats, offers, thr>>

NextReset ==
    \/ \E u \in Users : Start(u)
    \/ \E u \in Users : Add(u, <<Milk>>)
    \/ \E u \in Users : NewList(u, <<Work>>)
    \/ \E u \in Users : Upgrade(u)
    \/ \E u \in Users, i \in TaskIds : Button(u, ToggleToken(Daily, i))
    \/ \E u \in Users : Payment(u, "premium_basic_7d")
    \/ ResetLoad
    \/ \E user_id \in DOMAIN sched.data : ResetUser(user_id)
    \/ ResetSave

SpecReset == Init /\ [][NextReset]_vars

----------------------------------------------------------------------------
(* What the claims are stated on *)

DataOf(w) == LoadData(w.fs, now).data

HasUser(u) == Has(Stored, Key(u))

StoredUser(u) == Stored[Key(u)]

(* the stored record carries an expiry date that is in the past *)
ExpiredStored(u) ==
    /\ HasUser(u)
    /\ Has(StoredUser(u), "premium_expires")
    /\ Expired(StoredUser(u))

TaskIdsOf(cd) == {t.id : t \in {ChecklistFromDict(cd).tasks[i] : i \in 1..Len(ChecklistFromDict(cd).tasks)}}

(* what the gated operations change: the checklists there are, the tasks *)
(* in each, the notification setting                                     *)
GatedView(user_data) ==
    [names |-> DOMAIN user_data.checklists,
     ids |-> [n \in DOMAIN user_data.checklists |-> TaskIdsOf(user_data.checklists[n])],
     notifications |-> NotificationsEnabled(user_data)]

GatedTokens ==
    {DeleteTaskToken(n, i) : n \in Names, i \in TaskIds}
    \cup {DeleteConfirmedToken(n) : n \in Names}
    \cup {Tok2("toggle", "notifications")}

(* the gated invocations a user can make in the current state *)
GatedCalls(u) ==
    {NewChecklistCmd(W, u, args) : args \in NameArgs}
    \cup {ButtonHandler(W, u, token) : token \in IF u \in chats THEN GatedTokens ELSE {}}

----------------------------------------------------------------------------
PaidAsPurchased(user_data, payload) ==
    /\ user_data.is_premium
    /\ user_data.premium_expires = now + PlanDays(payload)
    /\ Has(user_data, "premium_plan")
    /\ user_data.premium_plan = PlanFeatures(payload)

(* C6: a successful payment for a tier (7, 30, 90, 365 days) leaves the   *)
(* user with is_premium = true, premium_expires = now + the tier's days   *)
(* and the tier stored as the plan.                                       *)
PaymentGrantsPurchasedTier ==
    \A u \in offers, payload \in Payloads :
        PaidAsPurchased(DataOf(SuccessfulPaymentCallback(W, u, payload).w)[Key(u)], payload)

----------------------------------------------------------------------------
CheckedTwice(u, p1, p2) ==
    /\ ~p1.premium
    /\ ~DataOf(p1.w)[Key(u)].is_premium
    /\ ~p2.premium
    /\ p2.w = p1.w

CheckedOnce(u, p1) == CheckedTwice(u, p1, IsUserPremium(p1.w, u))

(* C7: for a user whose premium_expires is in the past the premium check  *)
(* returns false and leaves the stored is_premium false; a second check   *)
(* returns false again and leaves the store as the first check left it.   *)
ExpiredCheckIdempotent ==
    \A u \in Users : ExpiredStored(u) => CheckedOnce(u, IsUserPremium(W, u))

(* an expired grant is stored and the check, run now, clears it *)
ExpiredCheckWitness ==
    \E u \in Users :
        /\ ExpiredStored(u)
        /\ StoredUser(u).is_premium
        /\ ~DataOf(IsUserPremium(W, u).w)[Key(u)].is_premium

----------------------------------------------------------------------------
Ungated(u, r) ==
    /\ r.prem # "true" =>
           GatedView(DataOf(r.w)[Key(u)]) = GatedView(EnsureUserExists(W, u).user_data)
    /\ ExpiredStored(u) => r.prem # "true"

(* C8: an invocation of a gated operation (create checklist, delete       *)
(* checklist, delete task, notification change) whose premium check is    *)
(* not true commits no gated change, and the check is false whenever the  *)
(* stored grant has run out by the clock at the time of the call.         *)
GatedMutationsNeedPremium ==
    \A u \in Users : \A r \in GatedCalls(u) : Ungated(u, r)

(* a user who got a second checklist while premium was refused after expiry *)
RefusedAfterExpiry ==
    \E u \in Users :
        /\ last = Did(u, "upsell")
        /\ HasUser(u)
        /\ Has(StoredUser(u).checklists, Work)
        /\ now > 0

----------------------------------------------------------------------------
ToggledTwice(cl, id) ==
    /\ HasTask(cl, id)
    /\ \A i \in 1..Len(cl.tasks) :
           cl.tasks[i].id = id =>
               /\ ~cl.tasks[i].completed
               /\ ToggleTask(cl, id).tasks[i].completed
               /\ ~ToggleTask(ToggleTask(cl, id), id).tasks[i].completed
    /\ ToggleTask(ToggleTask(cl, id), id) = cl

AddThenToggle(cl, text) ==
    ToggledTwice(ChecklistAddTask(cl, text, nextId + 1, now), <<ToString(nextId + 1)>>)

(* the checklist the task with this id is stored in *)
ListOf(user_data, id) == CHOOSE n \in DOMAIN user_data.checklists : id \in TaskIdsOf(user_data.checklists[n])

ButtonToggledTwice(u, name, id, r0, r1, r2) ==
    /\ r1.resp = "toggled"
    /\ r2.resp = "toggled"
    /\ \A i \in 1..Len(DataOf(r0.w)[Key(u)].checklists[name].tasks) :
           DataOf(r0.w)[Key(u)].checklists[name].tasks[i].id = id =>
               DataOf(r1.w)[Key(u)].checklists[name].tasks[i].completed
    /\ DataOf(r2.w)[Key(u)].checklists = DataOf(r0.w)[Key(u)].checklists

ButtonToggledOnce(u, name, id, r0, r1) ==
    ButtonToggledTwice(u, name, id, r0, r1, ButtonHandler(r1.w, u, ToggleToken(name, id)))

AddedThenButton(u, name, id, r0) ==
    ButtonToggledOnce(u, name, id, r0, ButtonHandler(r0.w, u, ToggleToken(name, id)))

AddedThenToggled(u, r0) ==
    r0.resp = "added" =>
        AddedThenButton(u, ListOf(DataOf(r0.w)[Key(u)], <<ToString(r0.w.nextId)>>),
                        <<ToString(r0.w.nextId)>>, r0)

(* C10: a task just added is completed after one toggle by its id and not *)
(* completed after a second; the two toggles leave the checklist as it    *)
(* was, in the Checklist object and through the toggle_ button.           *)
ToggleIsItsOwnInverse ==
    /\ \A u \in Users : HasUser(u) =>
           \A n \in DOMAIN StoredUser(u).checklists, args \in AddArgs \ {<<>>} :
               AddThenToggle(ChecklistFromDict(StoredUser(u).checklists[n]), Join(args))
    /\ \A u \in Users, args \in AddArgs : AddedThenToggled(u, AddTaskCmd(W, u, args))

(* a task was added and the toggle_ button has just completed it *)
ToggledWitness ==
    \E u \in Users :
        /\ last = Did(u, "toggled")
        /\ HasUser(u)
        /\ \E n \in DOMAIN StoredUser(u).checklists :
               \E i \in 1..Len(StoredUser(u).checklists[n].tasks) :
                   StoredUser(u).checklists[n].tasks[i].completed

----------------------------------------------------------------------------
(* C1: every user record in the store has a checklist named "Daily",      *)
(* whatever commands, buttons, payments and daily resets came before.     *)
EveryRecordHasDaily ==
    \A k \in DOMAIN Stored :
        Has(Stored[k], "checklists") /\ Has(Stored[k].checklists, Daily)

----------------------------------------------------------------------------
StoredTaskIds ==
    UNION {UNION {TaskIdsOf(Stored[k].checklists[n]) : n \in DOMAIN Stored[k].checklists} :
               k \in {x \in DOMAIN Stored : Has(Stored[x], "checklists")}}

(* C3: a task a handler added while the daily reset was between its load  *)
(* and its save is in the store when the reset has saved.                 *)
ResetKeepsCommitted ==
    last = Did(0, "reset_tasks") => sched.added \subseteq StoredTaskIds

----------------------------------------------------------------------------
(* The limit of checklists: one user, enough names to pass the limit *)

LimitNames == {<<"L" \o ToString(i)>> : i \in 1..NLimitNames}

NextLimit ==
    \/ \E u \in Users : Upgrade(u)
    \/ \E u \in Users : Payment(u, "premium_standard_30d")
    \/ \E u \in Users, n \in LimitNames : NewList(u, <<n>>)
    \/ \E u \in Users, n \in LimitNames : Button(u, DeleteConfirmedToken(n))

SpecLimit == Init /\ [][NextLimit]_vars

(* the premium check would return true: the stored grant has not run out *)
Entitled(u) ==
    /\ HasUser(u)
    /\ StoredUser(u).is_premium
    /\ ~Expired(StoredUser(u))

Created(u, name) ==
    [Stored EXCEPT ![Key(u)].checklists = Put(@, name, [name |-> name, tasks |-> <<>>])]

NewChecklistAtLimit(u, name, r) ==
    IF Cardinality(DOMAIN StoredUser(u).checklists) >= MaxChecklists
    THEN r.resp # "created" /\ DataOf(r.w) = Stored
    ELSE (StrLen(name) <= MaxNameLen /\ ~Has(StoredUser(u).checklists, name)) =>
             r.resp = "created" /\ DataOf(r.w) = Created(u, name)

(* C9: no user has more than 10 checklists; new_checklist by a premium    *)
(* user who has 10 creates nothing and leaves the store as it was; by a   *)
(* premium user who has fewer, with a fresh valid name, it stores the     *)
(* checklist, empty.                                                      *)
AtMostTenChecklists ==
    /\ \A u \in Users : HasUser(u) =>
           Cardinality(DOMAIN StoredUser(u).checklists) <= MaxChecklists
    /\ \A u \in Users, n \in LimitNames :
           Entitled(u) => NewChecklistAtLimit(u, n, NewChecklistCmd(W, u, <<n>>))

(* a premium user with 10 checklists has just been refused another *)
LimitReachedWitness ==
    \E u \in Users :
        /\ last = Did(u, "limit_reached")
        /\ Entitled(u)
        /\ Cardinality(DOMAIN StoredUser(u).checklists) = MaxChecklists

----------------------------------------------------------------------------
(* Two invocations at the grain of their loads and saves of tasks.json.   *)
(* No function of the program takes a lock: thread 1 is a handler running *)
(* add_task, thread 2 another add_task invocation or the is_user_premium  *)
(* call that reset_tasks makes from the scheduler thread.                 *)

Call(op, u, args) == [op |-> op, user |-> u, args |-> args]

AddCalls == {Call("add_task", u, args) : u \in RaceUsers, args \in {<<Milk>>, <<Work, Milk>>}}

CheckCalls == {Call("is_user_premium", u, <<>>) : u \in RaceUsers}

NewThread(call) ==
    [call |-> call,
     pc |-> IF call.op = "add_task" THEN "e_load" ELSE "p_load",
     loaded |-> EmptyDict, user_data |-> EmptyDict, data |-> EmptyDict,
     premium |-> FALSE, id |-> <<>>]

(* the record /start, a payment at the start and /new_checklist Work leave *)
PremiumUser ==
    [DefaultUser EXCEPT !.is_premium = TRUE, !.premium_expires = DurationDays,
                        !.checklists = Put(@, Work, NewChecklist(Work))]

(* the table with such a record for each of the users 1..n *)
SetUpAll(n) == [k \in {Key(u) : u \in 1..n} |-> PremiumUser]

InitRace ==
    /\ now = 0
    /\ fs = SaveData(NoFiles, SetUpAll(NRaceUsers))
    /\ nextId = 0
    /\ chats = RaceUsers
    /\ offers = RaceUsers
    /\ sched = IdleSched
    /\ thr \in {<<NewThread(c1), NewThread(c2)>> : c1 \in AddCalls, c2 \in AddCalls \cup CheckCalls}
    /\ last = Did(0, "none")

(* the table a thread loaded, with the files as they are when it saves *)
LoadedBy(t) == [data |-> thr[t].loaded, fs |-> fs]

Step(t, pc, w) ==
    /\ w.nextId <= MaxTasks
    /\ fs' = w.fs
    /\ nextId' = w.nextId
    /\ last' = Did(thr[t].call.user, pc)
    /\ UNCHANGED <<now, chats, offers, sched>>

(* ensure_user_exists: data = load_data() *)
ELoad(t) ==
    /\ thr[t].pc = "e_load"
    /\ thr' = [thr EXCEPT ![t].pc = "e_save", ![t].loaded = Stored]
    /\ Step(t, "e_load", World(LoadData(fs, now).fs, nextId))

(* ensure_user_exists: save_data(data), return the record *)
ESaved(t, e) ==
    /\ thr' = [thr EXCEPT ![t].pc = "load", ![t].user_data = e.user_data]
    /\ Step(t, "e_save", e.w)

ESave(t) ==
    /\ thr[t].pc = "e_save"
    /\ ESaved(t, EnsureLoaded(W, Key(thr[t].call.user), LoadedBy(t)))

(* add_task: data = load_data() *)
Load(t) ==
    /\ thr[t].pc = "load"
    /\ thr' = [thr EXCEPT ![t].pc = "p_load", ![t].data = Stored]
    /\ Step(t, "load", World(LoadData(fs, now).fs, nextId))

(* is_user_premium: the load of its ensure_user_exists *)
PLoad(t) ==
    /\ thr[t].pc = "p_load"
    /\ thr' = [thr EXCEPT ![t].pc = "p_save", ![t].loaded = Stored]
    /\ Step(t, "p_load", World(LoadData(fs, now).fs, nextId))

(* is_user_premium: the save of its ensure_user_exists, and the check *)
PSaved(t, p) ==
    /\ thr' = [thr EXCEPT ![t].pc = IF thr[t].call.op = "add_task" THEN "final" ELSE "done",
                          ![t].premium = p.premium]
    /\ Step(t, "p_save", p.w)

PSave(t) ==
    /\ thr[t].pc = "p_save"
    /\ PSaved(t, PremiumOf(EnsureLoaded(W, Key(thr[t].call.user), LoadedBy(t)),
                           Key(thr[t].call.user)))

(* add_task: the task is added to the checklist and save_data(data) *)
Finished(t, r) ==
    /\ thr' = [thr EXCEPT ![t].pc = "done",
                          ![t].id = IF r.resp = "added" THEN <<ToString(r.w.nextId)>> ELSE <<>>]
    /\ Step(t, "final", r.w)

Final(t) ==
    /\ thr[t].pc = "final"
    /\ Finished(t, AddTaskChecked(Key(thr[t].call.user), thr[t].user_data, thr[t].data,
                                  [w |-> W, premium |-> thr[t].premium], thr[t].call.args))

NextRace ==
    \/ \E t \in DOMAIN thr : ELoad(t)
    \/ \E t \in DOMAIN thr : ESave(t)
    \/ \E t \in DOMAIN thr : Load(t)
    \/ \E t \in DOMAIN thr : PLoad(t)
    \/ \E t \in DOMAIN thr : PSave(t)
    \/ \E t \in DOMAIN thr : Final(t)

SpecRace == InitRace /\ [][NextRace]_vars

AllDone == DOMAIN thr # {} /\ \A t \in DOMAIN thr : thr[t].pc = "done"

AddsPersisted ==
    \A t \in DOMAIN thr : thr[t].call.op = "add_task" => thr[t].id \in StoredTaskIds

DifferentUsersBothPersist ==
    (AllDone /\ thr[1].call.user # thr[2].call.user) => AddsPersisted

----------------------------------------------------------------------------
(* save_data step by step, run by two threads (a handler in the           *)
(* dispatcher, reset_tasks in the scheduler thread), with load_data of a  *)
(* reader and a crash of the process.  Both savers use the one path       *)
(* tasks.json.tmp.  fd is where the file a saver has open is now found:   *)
(* under the temporary path, under tasks.json (after a rename by the      *)
(* other saver), or under no path (removed or replaced).                  *)

(* the tables passed to save_data: SetUpAll(1), SetUpAll(2) *)
SavedTables == {SetUpAll(s) : s \in 0..2}

NewSaver(s) == [data |-> SetUpAll(s), pc |-> "open", pos |-> 1, fd |-> "none"]

InitSave ==
    /\ now = 0
    /\ fs \in {NoFiles, SaveData(NoFiles, SetUpAll(0))}
    /\ nextId = 0
    /\ chats = {}
    /\ offers = {}
    /\ sched = IdleSched
    /\ thr = <<NewSaver(1), NewSaver(2)>>
    /\ last = Did(0, "none")

SaveStep(s, pc) ==
    /\ last' = Did(s, pc)
    /\ UNCHANGED <<now, nextId, chats, offers, sched>>

(* open(temp_file, "w"): the file under the path is created or truncated *)
SOpen(s) ==
    /\ thr[s].pc = "open"
    /\ fs' = [fs EXCEPT !.tmp = EmptyFile]
    /\ thr' = [t \in DOMAIN thr |->
                 IF t = s THEN [thr[t] EXCEPT !.pc = "write", !.fd = "tmp"]
                 ELSE IF thr[t].fd = "tmp" /\ ~fs.tmp.exists THEN [thr[t] EXCEPT !.fd = "gone"]
                 ELSE thr[t]]
    /\ SaveStep(s, "open")

(* json.dump: the next part of the text reaches the open file *)
SWrite(s) ==
    /\ thr[s].pc = "write"
    /\ thr[s].pos <= NChunks
    /\ fs' = IF thr[s].fd = "tmp"
             THEN [fs EXCEPT !.tmp.chunks[thr[s].pos] = <<thr[s].data>>]
             ELSE IF thr[s].fd = "file"
             THEN [fs EXCEPT !.file.chunks[thr[s].pos] = <<thr[s].data>>]
             ELSE fs
    /\ thr' = [thr EXCEPT ![s].pos = @ + 1]
    /\ SaveStep(s, "write")

(* the with block ends: the file is closed *)
SClose(s) ==
    /\ thr[s].pc = "write"
    /\ thr[s].pos > NChunks
    /\ thr' = [thr EXCEPT ![s].pc = "rename", ![s].fd = "none"]
    /\ SaveStep(s, "close")
    /\ UNCHANGED fs

(* os.rename(temp_file, TASK_FILE); with no file under the temporary path *)
(* it raises, and the except branch finds nothing to remove               *)
SRename(s) ==
    /\ thr[s].pc = "rename"
    /\ fs' = IF fs.tmp.exists THEN [fs EXCEPT !.file = fs.tmp, !.tmp = NoFile] ELSE fs
    /\ thr' = [t \in DOMAIN thr |->
                 IF t = s THEN [thr[t] EXCEPT !.pc = "done"]
                 ELSE IF ~fs.tmp.exists THEN thr[t]
                 ELSE IF thr[t].fd = "tmp" THEN [thr[t] EXCEPT !.fd = "file"]
                 ELSE IF thr[t].fd = "file" THEN [thr[t] EXCEPT !.fd = "gone"]
                 ELSE thr[t]]
    /\ SaveStep(s, IF fs.tmp.exists THEN "saved" ELSE "save_failed")

(* os.rename raises although the temporary file is there (the store path *)
(* cannot be replaced): the except branch removes the temporary file     *)
SRenameFail(s) ==
    /\ thr[s].pc = "rename"
    /\ fs.tmp.exists
    /\ fs' = [fs EXCEPT !.tmp = NoFile]
    /\ thr' = [t \in DOMAIN thr |->
                 IF t = s THEN [thr[t] EXCEPT !.pc = "done"]
                 ELSE IF thr[t].fd = "tmp" THEN [thr[t] EXCEPT !.fd = "gone"]
                 ELSE thr[t]]
    /\ SaveStep(s, "save_failed")

(* an except branch that leaves the temporary file where it is *)
SFailKeepsTmp(s) ==
    /\ thr[s].pc = "write"
    /\ thr' = [thr EXCEPT ![s].pc = "done", ![s].fd = "none"]
    /\ SaveStep(s, "save_failed")
    /\ UNCHANGED fs

(* a write raises (no space left): the except branch removes whatever is *)
(* under the temporary path                                              *)
SFail(s) ==
    /\ thr[s].pc = "write"
    /\ fs' = [fs EXCEPT !.tmp = NoFile]
    /\ thr' = [t \in DOMAIN thr |->
                 IF t = s THEN [thr[t] EXCEPT !.pc = "done", !.fd = "none"]
                 ELSE IF thr[t].fd = "tmp" THEN [thr[t] EXCEPT !.fd = "gone"]
                 ELSE thr[t]]
    /\ SaveStep(s, "save_failed")

(* the process dies between two steps *)
Crash ==
    /\ \E s \in DOMAIN thr : thr[s].pc \notin {"done", "dead"}
    /\ thr' = [t \in DOMAIN thr |-> [thr[t] EXCEPT !.pc = "dead", !.fd = "none"]]
    /\ SaveStep(0, "crash")
    /\ UNCHANGED fs

(* load_data by a reader *)
Read ==
    /\ fs' = LoadData(fs, now).fs
    /\ SaveStep(0, IF fs.file.exists /\ ~Parseable(fs.file) THEN "read_corrupt" ELSE "read")
    /\ UNCHANGED thr

NextSave ==
    \/ \E s \in DOMAIN thr : SOpen(s)
    \/ \E s \in DOMAIN thr : SWrite(s)
    \/ \E s \in DOMAIN thr : SClose(s)
    \/ \E s \in DOMAIN thr : SRename(s)
    \/ \E s \in DOMAIN thr : SFail(s)
    \/ \E s \in DOMAIN thr : SRenameFail(s)
    \/ Crash
    \/ Read

SpecSave == InitSave /\ [][NextSave]_vars

(* C5: the file under the store path is absent or the whole text of a    *)
(* table, at every step of every saver, with a crash, with a reader.     *)
StoreFileIntact ==
    fs.file.exists => Parseable(fs.file) /\ fs.file.chunks[1][1] \in SavedTables

----------------------------------------------------------------------------
(* the checklists in the store, as Checklist objects *)
StoredChecklists ==
    UNION {{ChecklistFromDict(Stored[k].checklists[n]) : n \in DOMAIN Stored[k].checklists} :
               k \in {x \in DOMAIN Stored : Has(Stored[x], "checklists")}}

ResetOnce(cl) ==
    /\ ResetAll(ResetAll(cl)) = ResetAll(cl)
    /\ GetProgress(ResetAll(cl)) = <<0, Len(cl.tasks)>>
    /\ Len(ResetAll(cl).tasks) = Len(cl.tasks)

(* C11: reset_all applied twice to a checklist gives what it gives applied *)
(* once, and after it get_progress returns (0, total) with total the      *)
(* number of tasks the checklist had.                                     *)
ResetAllIdempotent == \A cl \in StoredChecklists : ResetOnce(cl)

(* a stored checklist of two tasks with one of them completed *)
ResetAllWitness ==
    \E cl \in StoredChecklists : GetProgress(cl) = <<1, 2>> /\ ResetAll(cl) # cl

----------------------------------------------------------------------------
(* The store as the bot finds it when it starts: no file, a table written *)
(* by this or by an earlier version of the bot (legacy records hold       *)
(* "tasks" and "done"), a file cut short, a file that is not UTF-8; the   *)
(* chats hold the messages of earlier runs; writes to the disk may fail.  *)

LegacyUser(old_tasks, old_done) == [tasks |-> old_tasks, done |-> old_done]

InitialTables ==
    {EmptyDict,
     SetUpAll(1),
     Put(EmptyDict, Key(1), LegacyUser(<<Milk>>, <<0>>)),
     Put(EmptyDict, Key(1), LegacyUser(<<Milk, Work>>, <<1>>)),
     Put(EmptyDict, Key(1), LegacyUser(<<<<" ">>>>, <<>>)),
     Put(EmptyDict, Key(1), Put(PremiumUser, "premium_plan", "basic")),
     Put(SetUpAll(1), Key(2), LegacyUser(<<Milk>>, <<>>)),
     Put(EmptyDict, Key(2), [checklists |-> Put(EmptyDict, Daily, NewChecklist(Daily))])}

InitialFiles ==
    {NoFile,
     [EmptyFile EXCEPT !.chunks[1] = <<SetUpAll(1)>>],
     [FullFile(SetUpAll(1)) EXCEPT !.utf8 = FALSE]}
    \cup {FullFile(data) : data \in InitialTables}

InitStore ==
    /\ fs \in {[NoFiles EXCEPT !.file = f] : f \in InitialFiles}
    /\ now = 0
    /\ nextId = 0
    /\ chats = RaceUsers
    /\ offers = {}
    /\ sched = IdleSched
    /\ thr = EmptyDict
    /\ last = Did(0, "none")

(* the disk fills up (every write raises OSError) or has room again *)
Disk(fails) ==
    /\ fs.write_fails # fails
    /\ fs' = [fs EXCEPT !.write_fails = fails]
    /\ last' = Did(0, IF fails THEN "disk_fails" ELSE "disk_recovers")
    /\ UNCHANGED <<now, nextId, chats, offers, sched, thr>>

NextStore ==
    \/ \E u \in RaceUsers : Start(u)
    \/ \E u \in RaceUsers : Add(u, <<Milk>>)
    \/ \E u \in RaceUsers, i \in TaskIds : Button(u, ToggleToken(Daily, i))
    \/ \E u \in RaceUsers, i \in TaskIds : Button(u, DeleteTaskToken(Daily, i))
    \/ Tick
    \/ Reset
    \/ \E fails \in BOOLEAN : Disk(fails)

SpecStore == InitStore /\ [][NextStore]_vars

----------------------------------------------------------------------------
(* the record has the entitlement fields, the settings and the checklists *)
Migrated(user_data) ==
    {"is_premium", "premium_expires", "settings", "checklists"} \subseteq DOMAIN user_data

EnsuredTwice(e1, e2) ==
    /\ e2.user_data = e1.user_data
    /\ DataOf(e2.w) = DataOf(e1.w)
    /\ e2.w.nextId = e1.w.nextId

EnsuredOnce(u, e1) ==
    /\ (HasUser(u) /\ Migrated(StoredUser(u))) =>
           /\ e1.user_data = StoredUser(u)
           /\ DataOf(e1.w) = Stored
           /\ e1.w.nextId = nextId
    /\ EnsuredTwice(e1, EnsureUserExists(e1.w, u))

(* C12: ensure_user_exists returns and stores a record that already has   *)
(* is_premium, premium_expires, settings and checklists as it is (tasks,  *)
(* ids, texts, order, flags, entitlement, settings), and called a second  *)
(* time, after a legacy or partial record was migrated or a new one       *)
(* created, it returns the same record, stores the same table and draws   *)
(* no id (the writes of the store succeeding).                            *)
EnsureUserIdempotent ==
    \A u \in RaceUsers : ~fs.write_fails => EnsuredOnce(u, EnsureUserExists(W, u))

(* a legacy record with a task is stored and ensure_user_exists migrates it *)
LegacyStoredWitness ==
    \E u \in RaceUsers :
        /\ ~fs.write_fails
        /\ HasUser(u)
        /\ ~Has(StoredUser(u), "checklists")
        /\ EnsureUserExists(W, u).user_data.checklists[Daily].tasks # <<>>
        /\ EnsureUserExists(W, u).w.nextId > nextId

----------------------------------------------------------------------------
WellFormedTables ==
    {EmptyDict, SetUpAll(1), SetUpAll(2),
     Put(EmptyDict, Key(1), [DefaultUser EXCEPT !.checklists = EmptyDict])}

RoundTrip(data) ==
    /\ LoadData(SaveData(fs, data), now).data = data
    /\ JsonLoad(JsonDump("table", data)) = data

----------------------------------------------------------------------------
CreatedDefault(u, e) ==
    /\ DOMAIN e.user_data.checklists = {Daily}
    /\ e.user_data.checklists[Daily].tasks = <<>>
    /\ ~e.user_data.is_premium
    /\ e.user_data.premium_expires = None
    /\ e.user_data.settings = DefaultSettings
    /\ DataOf(e.w) = Put(Stored, Key(u), e.user_data)

(* C14: ensure_user_exists for a user id that is not in the store returns *)
(* and stores a record with the one checklist "Daily", no task in it,     *)
(* is_premium false, premium_expires None and the default settings; the   *)
(* table stored is the table read with that record added (the write       *)
(* succeeding).                                                           *)
NewUserGetsDaily ==
    \A u \in RaceUsers :
        (~HasUser(u) /\ ~fs.write_fails) => CreatedDefault(u, EnsureUserExists(W, u))

(* /start has just created the record of one user beside another's record *)
NewUserWitness ==
    \E u \in RaceUsers, v \in RaceUsers :
        /\ u # v
        /\ last = Did(u, "welcome")
        /\ HasUser(u) /\ StoredUser(u) = DefaultUser
        /\ HasUser(v) /\ StoredUser(v) # DefaultUser

----------------------------------------------------------------------------
AllTaskIds(checklists) == UNION {TaskIdsOf(checklists[n]) : n \in DOMAIN checklists}

AppendedToDaily(args, before, after, r) ==
    /\ r.resp = "added"
    /\ DOMAIN after = DOMAIN before
    /\ \A n \in DOMAIN before \ {Daily} : after[n] = before[n]
    /\ Len(after[Daily].tasks) = Len(before[Daily].tasks) + 1
    /\ SubSeq(after[Daily].tasks, 1, Len(before[Daily].tasks)) = before[Daily].tasks
    /\ after[Daily].tasks[Len(after[Daily].tasks)].text = Join(args)
    /\ ~after[Daily].tasks[Len(after[Daily].tasks)].completed
    /\ after[Daily].tasks[Len(after[Daily].tasks)].id \notin AllTaskIds(before)

FreeAdd(u, args, r) ==
    AppendedToDaily(args, EnsureUserExists(W, u).user_data.checklists,
                    DataOf(r.w)[Key(u)].checklists, r)

DeleteRefused(u, r) ==
    /\ r.resp # "task_deleted"
    /\ DataOf(r.w)[Key(u)].checklists = StoredUser(u).checklists

(* C15: for a user whose premium check is false, /add with arguments      *)
(* appends one task, not completed, with a new id and the arguments       *)
(* joined as its text, at the end of "Daily", also when the first         *)
(* argument names another checklist of the user, and changes no other     *)
(* checklist; a delete_task_ button of that user deletes nothing and      *)
(* leaves the user's checklists as they were.                             *)
FreeUserAddsToDaily ==
    \A u \in Users :
        ~IsUserPremium(W, u).premium =>
            /\ \A args \in AddArgs \ {<<>>} : FreeAdd(u, args, AddTaskCmd(W, u, args))
            /\ u \in chats =>
                   \A n \in Names, i \in TaskIds :
                       DeleteRefused(u, ButtonHandler(W, u, DeleteTaskToken(n, i)))

(* a user whose grant ran out and who has the checklist Work has just *)
(* added "Work milk", which went to Daily                              *)
FreeAddWitness ==
    \E u \in Users :
        /\ last = Did(u, "added")
        /\ ~IsUserPremium(W, u).premium
        /\ Has(StoredUser(u).checklists, Work)
        /\ StoredUser(u).checklists[Work].tasks = <<>>
        /\ \E i \in 1..Len(StoredUser(u).checklists[Daily].tasks) :
               StoredUser(u).checklists[Daily].tasks[i].text = Join(<<Work, Milk>>)

----------------------------------------------------------------------------
(* the token names a checklist or a task the store does not hold for u *)
Stale(u, name, id) ==
    \/ ~HasUser(u)
    \/ ~Has(StoredUser(u), "checklists")
    \/ ~Has(Get(StoredUser(u), "checklists", EmptyDict), name)
    \/ id \notin AllTaskIds(Get(StoredUser(u), "checklists", EmptyDict))

SilentNoOp(r) == r.resp # "error" /\ DataOf(r.w) = Stored

(* C16: a toggle_ or delete_task_ token whose checklist or task is not in *)
(* the store (deleted since the view was sent, or the user has no record  *)
(* in the store) leaves the stored table as it was and answers the user   *)
(* with no error.                                                         *)
StaleTokenIsSilentNoOp ==
    \A u \in chats, name \in Names, id \in TaskIds :
        Stale(u, name, id) =>
            /\ SilentNoOp(ButtonHandler(W, u, ToggleToken(name, id)))
            /\ SilentNoOp(ButtonHandler(W, u, DeleteTaskToken(name, id)))

----------------------------------------------------------------------------
(* tasks.json is there and json.load cannot read it *)
Unreadable == fs.file.exists /\ (~fs.file.utf8 \/ ~Parseable(fs.file))

BackedUp(f, chunks) == \E b \in DOMAIN f.backups : f.backups[b] = chunks

(* C17: when tasks.json is there and cannot be parsed, load_data returns  *)
(* the empty table and the content of the file is kept under a backup     *)
(* name, where it still is after the next save_data and after the next    *)
(* handler.                                                               *)
UnreadableIsBackedUp ==
    Unreadable =>
        /\ LoadData(fs, now).data = EmptyDict
        /\ BackedUp(LoadData(fs, now).fs, fs.file.chunks)
        /\ BackedUp(SaveData(LoadData(fs, now).fs, EmptyDict), fs.file.chunks)
        /\ \A u \in RaceUsers : BackedUp(StartCmd(W, u).w.fs, fs.file.chunks)

----------------------------------------------------------------------------
Reported(r) == r.resp # "added" /\ DataOf(r.w) = Stored

(* C18: when the write of the store fails during /add, the user is not    *)
(* told that the task was added and the stored table is the one before.   *)
WriteFailureIsReported ==
    fs.write_fails =>
        \A u \in RaceUsers, args \in AddArgs \ {<<>>} : Reported(AddTaskCmd(W, u, args))

----------------------------------------------------------------------------
(* C20: when reset_tasks has run from its load to its save with no        *)
(* handler in between (the save succeeding), every task of every          *)
(* checklist of every user in the store has completed = false.            *)
ResetClearsEveryFlag ==
    (last = Did(0, "reset_tasks") /\ ~fs.write_fails) =>
        \A cl \in StoredChecklists : GetProgress(cl)[1] = 0

(* a reset has just run over two users, one of them with a task *)
ResetRanWitness ==
    /\ last = Did(0, "reset_tasks")
    /\ ~fs.write_fails
    /\ Cardinality(DOMAIN Stored) = 2
    /\ \E cl \in StoredChecklists : GetProgress(cl) = <<0, 1>>

----------------------------------------------------------------------------
(* the gated operations: the commands and the buttons *)
GatedOperations(u) ==
    {NewChecklistCmd(W, u, args) : args \in NameArgs}
    \cup {DeleteChecklistCmd(W, u, args) : args \in NameArgs}
    \cup {StatsCmd(W, u)}
    \cup {ButtonHandler(W, u, token) :
              token \in IF u \in chats
                        THEN GatedTokens \cup {DeleteModePrefix \o n : n \in Names}
                                 \cup {Tok2("show", "stats"), <<"settings">>}
                        ELSE {}}

(* C19: every gated operation (new_checklist, delete_checklist, stats,    *)
(* delete_mode_, delete_task_, delete_confirmed_, show_stats, settings,   *)
(* toggle_notifications) of a user whose premium check is false answers   *)
(* that user with the upsell message.                                     *)
GatedOperationsUpsell ==
    \A u \in Users :
        ~IsUserPremium(W, u).premium => \A r \in GatedOperations(u) : r.resp = "upsell"

----------------------------------------------------------------------------
(* The daily reset over a table in which one user's record cannot be read *)
(* and with notifications that fail; the handlers are those of the users  *)
(* whose records can be read.                                             *)

UnreadableUser ==
    [DefaultUser EXCEPT !.checklists =
         Put(EmptyDict, Daily, [tasks |-> <<[NewTask(Milk, 0, 0) EXCEPT !.completed = TRUE]>>])]

InitFault ==
    /\ fs \in {[NoFiles EXCEPT !.file = FullFile(data)] :
                  data \in {Put(SetUpAll(1), Key(2), UnreadableUser),
                            Put(Put(EmptyDict, Key(1), UnreadableUser), Key(2), PremiumUser),
                            SetUpAll(2)}}
    /\ now = 0
    /\ nextId = 0
    /\ chats = {}
    /\ offers = {}
    /\ sched = IdleSched
    /\ thr = EmptyDict
    /\ last = Did(0, "none")

Readable(u) == Has(Stored, Key(u)) /\ ~Malformed(Stored[Key(u)])

NextFault ==
    \/ \E u \in RaceUsers : Readable(u) /\ Add(u, <<Milk>>)
    \/ \E u \in RaceUsers, i \in TaskIds : Readable(u) /\ Button(u, ToggleToken(Daily, i))
    \/ Tick
    \/ \E blocked \in SUBSET RaceUsers : ResetWith(blocked)

SpecFault == InitFault /\ [][NextFault]_vars

(* no task of the record is marked completed *)
AllClear(user_data) ==
    \A n \in DOMAIN user_data.checklists :
        \A i \in 1..Len(user_data.checklists[n].tasks) :
            ~user_data.checklists[n].tasks[i].completed

(* C21: a notification that fails, or an exception raised in the loop body *)
(* of one user, does not end the daily reset: the tasks of every other     *)
(* user are reset and the table is saved at the end (the stored records of *)
(* the other users hold no completed task after it).                       *)
ResetIsolatesFaults ==
    /\ \A k \in DOMAIN Stored :
           ~Malformed(Stored[k]) => AllClear(DataOf(ResetTasks(W))[k])
    /\ last.resp \in {"reset_tasks", "reset_unsent"} =>
           \A k \in DOMAIN Stored : ~Malformed(Stored[k]) => AllClear(Stored[k])

(* a reset ran in which a notification failed, over a table with a record *)
(* that cannot be read and a record that holds tasks                      *)
ResetWithFaultsWitness ==
    /\ last = Did(0, "reset_unsent")
    /\ \E k \in DOMAIN Stored : Malformed(Stored[k])
    /\ \E k \in DOMAIN Stored :
           ~Malformed(Stored[k]) /\ Len(Stored[k].checklists[Daily].tasks) > 0

----------------------------------------------------------------------------
(* the checklists of a table: the pairs of a user key and a checklist name *)
ListsOf(data) ==
    UNION {{<<k, n>> : n \in DOMAIN data[k].checklists} :
               k \in {x \in DOMAIN data : Has(data[x], "checklists")}}

TasksAt(data, kn) == data[kn[1]].checklists[kn[2]].tasks

IdSeq(tasks) == [i \in 1..Len(tasks) |-> tasks[i].id]

IdSet(tasks) == {tasks[i].id : i \in 1..Len(tasks)}

(* the ids drawn after n0 and up to n1 *)
DrawnBetween(n0, n1) == {<<ToString(m)>> : m \in (n0 + 1)..n1}

(* old and new are the tasks of one checklist before and after a step: the *)
(* ids are the same in the same order, or one is gone, or one drawn in the *)
(* step is appended; the task an id designates keeps its text and its date *)
IdsKept(old, new, n0, n1) ==
    /\ \/ IdSeq(new) = IdSeq(old)
       \/ \E i \in 1..Len(old) :
              IdSeq(new) = SubSeq(IdSeq(old), 1, i - 1) \o SubSeq(IdSeq(old), i + 1, Len(old))
       \/ \E id \in DrawnBetween(n0, n1) : IdSeq(new) = Append(IdSeq(old), id)
    /\ \A i \in 1..Len(old), j \in 1..Len(new) :
           old[i].id = new[j].id =>
               old[i].text = new[j].text /\ old[i].created_at = new[j].created_at

IdsKeptByStep ==
    /\ \A kn \in ListsOf(Stored) \cap ListsOf(Stored') :
           IdsKept(TasksAt(Stored, kn), TasksAt(Stored', kn), nextId, nextId')
    /\ \A kn \in ListsOf(Stored') \ ListsOf(Stored) :
           IdSet(TasksAt(Stored', kn)) \subseteq DrawnBetween(nextId, nextId')

DistinctIds ==
    \A kn \in ListsOf(Stored) :
        \A i, j \in 1..Len(TasksAt(Stored, kn)) :
            i # j => TasksAt(Stored, kn)[i].id # TasksAt(Stored, kn)[j].id

(* C22: the ids of the tasks of one checklist are pairwise distinct; no   *)
(* step (a toggle, the reset, a save and load, the migration of a legacy  *)
(* record) changes the id of a task; a task that is added gets an id that *)
(* was never drawn before, so never the id of a task that was deleted.    *)
TaskIdsAreStable == []DistinctIds /\ [][IdsKeptByStep]_vars

(* a task was added to a checklist after its first task was deleted *)
AddedAfterDelete ==
    /\ last.resp = "added"
    /\ ~fs.write_fails
    /\ \E kn \in ListsOf(Stored) : IdSeq(TasksAt(Stored, kn)) = <<<<"2">>>>
    /\ \A kn \in ListsOf(Stored) : <<"1">> \notin IdSet(TasksAt(Stored, kn))

----------------------------------------------------------------------------
(* the text is empty or holds spaces only *)
Blank(text) == \A i \in 1..Len(text) : text[i] = " "

(* C23: no stored task has an empty or whitespace-only text, whichever *)
(* way it came into its checklist (the add command, the migration of a *)
(* legacy record).                                                     *)
NoBlankTaskStored ==
    \A kn \in ListsOf(Stored) :
        \A i \in 1..Len(TasksAt(Stored, kn)) : ~Blank(TasksAt(Stored, kn)[i].text)

----------------------------------------------------------------------------
(* names of 50 and of 51 characters, names that differ from Work and from *)
(* Daily in case only                                                     *)
LongNameArgs == {<<<<"N51">>>>, <<<<"N50">>, <<"x">>>>, <<Work, <<"N50">>>>}

CaseVariants == {<<"work">>, <<"daily">>}

Rejected(r, resp) == r.resp = resp /\ DataOf(r.w) = Stored

CreatedBeside(u, r, name) ==
    /\ r.resp = "created"
    /\ DOMAIN DataOf(r.w)[Key(u)].checklists = DOMAIN StoredUser(u).checklists \cup {name}
    /\ \A n \in DOMAIN StoredUser(u).checklists :
           DataOf(r.w)[Key(u)].checklists[n] = StoredUser(u).checklists[n]

(* C24: for a user whose premium check is true, new_checklist with a name  *)
(* of more than 50 characters, or with a name that is exactly the name of  *)
(* a checklist of the user, is rejected and the store is unchanged; a name *)
(* of 50 characters, and a name that differs from an existing one in case  *)
(* only, is created beside the existing checklists.                        *)
NewChecklistValidatesName ==
    \A u \in Users : Entitled(u) =>
        /\ \A args \in LongNameArgs :
               Rejected(NewChecklistCmd(W, u, args), "name_too_long")
        /\ \A n \in DOMAIN StoredUser(u).checklists :
               Rejected(NewChecklistCmd(W, u, <<n>>), "already_exists")
        /\ \A n \in CaseVariants \cup {<<"N50">>} :
               CreatedBeside(u, NewChecklistCmd(W, u, <<n>>), n)

(* a premium user who has the checklist Work was just refused a second *)
(* Work and would be given a checklist work                            *)
DuplicateRefusedWitness ==
    \E u \in Users :
        /\ last = Did(u, "already_exists")
        /\ Entitled(u)
        /\ Has(StoredUser(u).checklists, Work)
        /\ Rejected(NewChecklistCmd(W, u, <<<<"N51">>>>), "name_too_long")
        /\ NewChecklistCmd(W, u, <<<<"work">>>>).resp = "created"

----------------------------------------------------------------------------
(* the answer neither offers the plans nor carries an invoice *)
NoPaymentRequest(r) == r.resp # "plans" /\ r.invoice = <<>>

(* C25: a user whose premium check is true is sent no payment request, by *)
(* the upgrade command, by the upgrade_prompt button or by a buy button   *)
(* of a plan message the user still holds.                                *)
NoInvoiceForPremium ==
    \A u \in Users : Entitled(u) =>
        /\ NoPaymentRequest(UpgradePremium(W, u))
        /\ u \in chats => NoPaymentRequest(ButtonHandler(W, u, Tok2("upgrade", "prompt")))
        /\ u \in offers =>
               \A pl \in Plans : NoPaymentRequest(ButtonHandler(W, u, Tok2("buy", pl)))

----------------------------------------------------------------------------
(* the names a confirmed deletion must refuse: Daily, and the names the *)
(* user has no checklist of (one that was deleted, one that never was)  *)
RefusedNames(u) ==
    {Daily} \cup ((Names \cup {<<"Gone">>}) \ DOMAIN StoredUser(u).checklists)

(* the answer to the confirmed deletion of a name that must be refused: *)
(* "Could not delete checklist" when the premium check is true, never   *)
(* the error alert of the exception handler, nothing deleted            *)
GracefulRefusal(u, r) ==
    /\ r.resp \notin {"error", "checklist_deleted"}
    /\ DataOf(r.w)[Key(u)].checklists = StoredUser(u).checklists
    /\ Entitled(u) => r.resp = "could_not_delete" /\ DataOf(r.w) = Stored

----------------------------------------------------------------------------
(* the record with its notification setting negated *)
NotificationsFlipped(user_data) ==
    [user_data EXCEPT !.settings.notifications_enabled = ~@]

(* C27: for a user whose premium check is true, the toggle_notifications *)
(* token negates settings.notifications_enabled in the stored record and *)
(* changes nothing else in the store.                                    *)
ToggleNotificationsFlips ==
    \A u \in Users : (u \in chats /\ Entitled(u)) =>
        DataOf(ButtonHandler(W, u, Tok2("toggle", "notifications")).w)
            = [Stored EXCEPT ![Key(u)] = NotificationsFlipped(@)]

----------------------------------------------------------------------------
----------------------------------------------------------------------------
(* a step of the loop of reset_tasks: one user leaves the users to do *)
ResetLoopStep == sched.pc = "loop" /\ sched'.todo # sched.todo

(* C29: in one run of the daily reset the table is saved once, after the *)
(* loop over the users, and the notifications are sent after that save:  *)
(* no step of the loop writes the store or sends a notification.         *)
ResetSavesThenNotifies ==
    [][ResetLoopStep => (fs' = fs /\ last'.resp # "reset_notified")]_vars

----------------------------------------------------------------------------
(* the stored record of the user says premium *)
StoredPremium(data, u) ==
    Has(data, Key(u)) /\ Has(data[Key(u)], "is_premium") /\ data[Key(u)].is_premium

(* C30: a user whom a premium check has reverted to Free (the grant had  *)
(* run out) is stored with is_premium = false until a payment: after an  *)
(* add by the user or a daily reset, each of which makes the premium     *)
(* check, the stored record does not say premium.                        *)
RevertedStaysFree ==
    \A u \in Users : (ExpiredStored(u) /\ StoredPremium(Stored, u)) =>
        /\ ~StoredPremium(DataOf(IsUserPremium(W, u).w), u)
        /\ ~StoredPremium(DataOf(ResetTasks(W)), u)
        /\ \A args \in AddArgs \ {<<>>} : ~StoredPremium(DataOf(AddTaskCmd(W, u, args).w), u)

----------------------------------------------------------------------------
(* the record is stored as premium with a grant that has not run out: no *)
(* expiry date, or one strictly later than now                           *)
GrantRunning(user_data) ==
    /\ user_data.is_premium
    /\ user_data.premium_expires = None \/ user_data.premium_expires > now

(* C31: whenever the premium check answers true for a user, the stored   *)
(* record of the user has is_premium = true and premium_expires is unset *)
(* or strictly later than now (at now = premium_expires the user is no   *)
(* longer premium).                                                      *)
PremiumImpliesGrantRunning ==
    \A u \in Users :
        IsUserPremium(W, u).premium =>
            GrantRunning(DataOf(IsUserPremium(W, u).w)[Key(u)])

----------------------------------------------------------------------------
(* names a premium user can create with /new_checklist: one plain word, *)
(* one word that contains "_"                                           *)
TokenNames == {<<"Gym">>, <<"my", "_", "list">>}

TasksNamed(w, u, name) == DataOf(w)[Key(u)].checklists[name].tasks

(* the toggle token of the view completes the task id of name, the *)
(* delete_task token of the view removes it                        *)
TokensAct(u, name, id, toggled, deleted) ==
    /\ toggled.resp = "toggled"
    /\ \E i \in 1..Len(TasksNamed(toggled.w, u, name)) :
           /\ TasksNamed(toggled.w, u, name)[i].id = id
           /\ TasksNamed(toggled.w, u, name)[i].completed
    /\ deleted.resp = "task_deleted"
    /\ id \notin IdSet(TasksNamed(deleted.w, u, name))

TokensOfAdded(u, name, id, r) ==
    r.resp = "added" =>
        /\ id \in IdSet(TasksNamed(r.w, u, name))
        /\ TokensAct(u, name, id, ButtonHandler(r.w, u, ToggleToken(name, id)),
                                  ButtonHandler(r.w, u, DeleteTaskToken(name, id)))

TokensOfCreated(u, name, r) ==
    r.resp = "created" =>
        TokensOfAdded(u, name, <<ToString(r.w.nextId + 1)>>,
                      AddTaskCmd(r.w, u, <<name, Milk>>))

(* C32: for every checklist name a user can create, names with "_"    *)
(* included, and every task in it, the toggle and delete_task tokens  *)
(* of the views decode in button_handler to the same checklist name   *)
(* and task id and act on that task.                                  *)
TokensRoundTrip ==
    \A u \in Users : (u \in chats /\ Entitled(u)) =>
        \A name \in TokenNames :
            TokensOfCreated(u, name, NewChecklistCmd(W, u, <<name>>))

----------------------------------------------------------------------------
ListNames(data, u) == DOMAIN data[Key(u)].checklists

KeepsLists(u, r) == ListNames(DataOf(r.w), u) = ListNames(Stored, u)

(* the delete_checklist command and the confirm_delete_ and cancel_delete *)
(* buttons leave the user with the same checklists                        *)
PromptsKeepLists ==
    \A u \in Users : HasUser(u) =>
        /\ \A args \in NameArgs : KeepsLists(u, DeleteChecklistCmd(W, u, args))
        /\ u \in chats =>
               /\ KeepsLists(u, ButtonHandler(W, u, Tok2("cancel", "delete")))
               /\ \A n \in Names : KeepsLists(u, ButtonHandler(W, u, ConfirmDeletePrefix \o n))

(* a step after which a user has lost a checklist is the delete_confirmed_ *)
(* button of that user, pressed while the premium check is true            *)
RemovedByConfirmedOnly ==
    \A u \in Users :
        (HasUser(u) /\ HasUser(u)' /\ ~(ListNames(Stored, u) \subseteq ListNames(Stored', u))) =>
            (last' = Did(u, "checklist_deleted") /\ Entitled(u))

(* C33: a checklist leaves the store only through the delete_confirmed_  *)
(* token that names it, for a user whose premium check is true; the      *)
(* delete_checklist command, with or without a name, and the             *)
(* confirm_delete_ and cancel_delete tokens never change the checklists  *)
(* the user has.                                                         *)
OnlyConfirmedDeletes == []PromptsKeepLists /\ [][RemovedByConfirmedOnly]_vars

(* the checklist Work of a premium user was just deleted *)
ChecklistDeletedWitness ==
    \E u \in Users :
        /\ last = Did(u, "checklist_deleted")
        /\ HasUser(u)
        /\ ~Has(StoredUser(u).checklists, Work)

----------------------------------------------------------------------------
(* a record of the old layout: the task strings and the indices (from 0) *)
(* of those done, no checklists                                          *)
IsLegacy(user_data) ==
    Has(user_data, "tasks") /\ Has(user_data, "done") /\ ~Has(user_data, "checklists")

(* tasks are those of the migrated Daily of the legacy record old, with *)
(* the ids drawn from n0 + 1 to n1                                      *)
TasksMigratedFrom(old, tasks, n0, n1) ==
    /\ Len(tasks) = Len(old.tasks)
    /\ \A i \in 1..Len(tasks) :
           /\ tasks[i].text = old.tasks[i]
           /\ tasks[i].completed = (\E j \in 1..Len(old.done) : old.done[j] = i - 1)
           /\ tasks[i].id \in DrawnBetween(n0, n1)
    /\ \A i, j \in 1..Len(tasks) : i # j => tasks[i].id # tasks[j].id

MigratedFrom(old, new, n0, n1) ==
    /\ DOMAIN new.checklists = {Daily}
    /\ new.checklists[Daily].name = Daily
    /\ TasksMigratedFrom(old, new.checklists[Daily].tasks, n0, n1)
    /\ ~Has(new, "tasks")
    /\ ~Has(new, "done")

LegacyEnsured(u, e) ==
    /\ MigratedFrom(StoredUser(u), e.user_data, nextId, e.w.nextId)
    /\ ~fs.write_fails => DataOf(e.w)[Key(u)] = e.user_data

(* C34: ensure_user_exists on a legacy record (a list of task strings and *)
(* a list of done indices, no checklists) gives a record whose only       *)
(* checklist is Daily, with one task per legacy string in the same order, *)
(* completed exactly at the positions listed in done, ids that are new    *)
(* and distinct, and without the tasks and done fields.                   *)
LegacyMigrationKeepsTasks ==
    \A u \in RaceUsers :
        (HasUser(u) /\ IsLegacy(StoredUser(u))) => LegacyEnsured(u, EnsureUserExists(W, u))

(* the legacy record of milk and Work, Work done, is stored migrated *)
LegacyMigratedWitness ==
    \E u \in RaceUsers :
        /\ HasUser(u)
        /\ Has(StoredUser(u), "checklists")
        /\ ~Has(StoredUser(u), "tasks")
        /\ Len(StoredUser(u).checklists[Daily].tasks) = 2
        /\ StoredUser(u).checklists[Daily].tasks[1].text = Milk
        /\ ~StoredUser(u).checklists[Daily].tasks[1].completed
        /\ StoredUser(u).checklists[Daily].tasks[2].text = Work
        /\ StoredUser(u).checklists[Daily].tasks[2].completed

----------------------------------------------------------------------------
(* the step is the one in which the save_data of saver s ends in its *)
(* except branch                                                     *)
SaveFailedBy(s) == last' = Did(s, "save_failed")

(* the step is one of the save_data of saver s before its rename, and the *)
(* file the saver has open is not under the store path                    *)
SavingStepOf(s) ==
    /\ last'.user = s
    /\ last'.resp \in {"open", "write", "close"}
    /\ thr[s].fd # "file"

SaveFailureStep ==
    \A s \in DOMAIN thr :
        /\ SaveFailedBy(s) => (~fs'.tmp.exists /\ fs'.file = fs.file)
        /\ SavingStepOf(s) => fs'.file = fs.file

(* C35: after a save_data that fails, in the write of the temporary file *)
(* or in its rename, no temporary file is left and the file under the    *)
(* store path is what it was: no step of the failing save changes it.    *)
FailedSaveCleansUp == [][SaveFailureStep]_vars

(* a save_data has just failed while no other was running, and the store *)
(* file written before it is there                                       *)
SaveFailedWitness ==
    \E s \in DOMAIN thr :
        /\ last = Did(s, "save_failed")
        /\ \A t \in DOMAIN thr \ {s} : thr[t].pc = "open"
        /\ fs.file = FullFile(SetUpAll(0))
        /\ ~fs.tmp.exists

----------------------------------------------------------------------------
(* the table w holds has, for every user other than u, the record that is *)
(* stored now, and no record for a user who has none                      *)
OthersKept(u, w) ==
    \A v \in RaceUsers \ {u} :
        IF HasUser(v)
        THEN Has(DataOf(w), Key(v)) /\ DataOf(w)[Key(v)] = StoredUser(v)
        ELSE ~Has(DataOf(w), Key(v))

CommandsOf(u) ==
    {StartCmd(W, u), HelpCmd(W, u), UpgradePremium(W, u), StatsCmd(W, u)}
    \cup {AddTaskCmd(W, u, args) : args \in AddArgs}
    \cup {ShowChecklistCmd(W, u, args) : args \in NameArgs}
    \cup {NewChecklistCmd(W, u, args) : args \in NameArgs}
    \cup {DeleteChecklistCmd(W, u, args) : args \in NameArgs}

(* C36: with the handlers run one at a time, a command, a button token or *)
(* a payment of one user leaves the stored record of every other user as  *)
(* it was.                                                                *)
OtherUsersUnchanged ==
    \A u \in RaceUsers :
        /\ \A r \in CommandsOf(u) : OthersKept(u, r.w)
        /\ \A token \in Tokens : OthersKept(u, ButtonHandler(W, u, token).w)
        /\ \A payload \in Payloads : OthersKept(u, SuccessfulPaymentCallback(W, u, payload).w)

(* user 1 has just added a task while user 2 has a record with a task *)
TwoUsersWitness ==
    /\ last = Did(1, "added")
    /\ HasUser(1)
    /\ HasUser(2)
    /\ Has(StoredUser(2), "checklists")
    /\ StoredUser(2).checklists[Daily].tasks # <<>>

----------------------------------------------------------------------------
(* the table with the notifications of the users in off disabled *)
Muted(data, off) ==
    [k \in DOMAIN data |->
        IF k \in off
        THEN [data[k] EXCEPT !.settings.notifications_enabled = FALSE]
        ELSE data[k]]

(* the world as it is, or with that table in the store file *)
MutedWorld(off) ==
    IF off = {} THEN W
    ELSE World([fs EXCEPT !.file = FullFile(Muted(Stored, off))], nextId)

(* the table with every completion flag false and all else as it is *)
ClearedTasks(tasks) == [i \in 1..Len(tasks) |-> [tasks[i] EXCEPT !.completed = FALSE]]

ClearedLists(checklists) ==
    [n \in DOMAIN checklists |-> [checklists[n] EXCEPT !.tasks = ClearedTasks(@)]]

ClearedTable(data) ==
    [k \in DOMAIN data |->
        IF Has(data[k], "checklists")
        THEN [data[k] EXCEPT !.checklists = ClearedLists(@)]
        ELSE data[k]]

(* C37: the daily reset changes completion flags only: the stored table   *)
(* after it is the table before it with every completed flag false, the   *)
(* checklists, the ids, texts, creation times and order of their tasks,   *)
(* the settings and the entitlement fields as they were, for the users    *)
(* with notifications enabled and for those with notifications disabled.  *)
ResetChangesFlagsOnly ==
    ~fs.write_fails =>
        \A off \in SUBSET {k \in DOMAIN Stored : Has(Stored[k], "settings")} :
            DataOf(ResetTasks(MutedWorld(off))) = ClearedTable(Muted(Stored, off))

(* the reset has run over the record of a user with two tasks whose grant *)
(* has run out                                                            *)
ResetKeptWitness ==
    /\ last = Did(0, "reset_tasks")
    /\ ~fs.write_fails
    /\ \E u \in RaceUsers :
           /\ HasUser(u)
           /\ Has(StoredUser(u), "checklists")
           /\ Len(StoredUser(u).checklists[Daily].tasks) = 2
           /\ StoredUser(u).is_premium
           /\ Expired(StoredUser(u))
----------------------------------------------------------------------------
BuyTokens == {Tok2("buy", pl) : pl \in Plans}

NavTokens ==
    {<<"noop">>, Tok2("cancel", "upgrade"), Tok2("cancel", "delete"), Tok2("show", "stats"),
     Tok2("close", "stats"), <<"settings">>, Tok2("close", "settings"),
     <<"create", "_", "new", "_", "list">>, <<"close", "_">> \o Daily}
    \cup {<<"showlist", "_">> \o n : n \in Names}
    \cup {<<"refresh", "_">> \o n : n \in Names}
    \cup BuyTokens

(* the checklists, with their tasks, and the settings of every user *)
ListsAndSettings(data) ==
    [k \in DOMAIN data |-> [checklists |-> data[k].checklists, settings |-> data[k].settings]]

(* is_premium and premium_expires of a stored user *)
EntitlementOf(data, u) ==
    <<data[Key(u)].is_premium, Get(data[Key(u)], "premium_expires", None)>>

NavKeeps(u, token) ==
    /\ ListsAndSettings(DataOf(ButtonHandler(W, u, token).w)) = ListsAndSettings(Stored)
    /\ token \in BuyTokens => DataOf(ButtonHandler(W, u, token).w) = Stored

NavTokensKeep ==
    \A u \in Users : (u \in chats /\ HasUser(u)) =>
        \A token \in NavTokens : NavKeeps(u, token)

(* the stored entitlement of a user changes in a step only by a payment *)
(* or by the expiry branch of a premium check                           *)
EntitlementStep ==
    \A u \in Users :
        (HasUser(u) /\ HasUser(u)' /\ EntitlementOf(Stored, u)' # EntitlementOf(Stored, u)) =>
            \/ last' = Did(u, "payment_successful")
            \/ ExpiredStored(u) /\ EntitlementOf(Stored, u)' = <<FALSE, None>>

(* C38: the navigation and cancel tokens noop, showlist, refresh, close, *)
(* cancel_delete, cancel_upgrade, show_stats, settings, create_new_list  *)
(* and buy leave every checklist, task and settings value of the store   *)
(* as it was; a buy token leaves the whole store as it was, and the      *)
(* stored entitlement changes only in a payment or an expiry check.      *)
NavigationChangesNothing == []NavTokensKeep /\ [][EntitlementStep]_vars

NavigatedWitness ==
    \E u \in Users :
        /\ last = Did(u, "invoice_sent")
        /\ u \in offers
        /\ HasUser(u)
        /\ Len(StoredUser(u).checklists[Daily].tasks) >= 1
        /\ ~StoredUser(u).is_premium
----------------------------------------------------------------------------
(* run_scheduler: the thread that runs schedule.run_pending() and sleeps, *)
(* for ever.  The job, reset_tasks, is due once a day; a cycle is its     *)
(* load, its loop one user at a time and its save, each of which may      *)
(* raise.  The clock is the number of sleeps left before the job is due.  *)

DayTicks == 2

SchedStart ==
    [pc |-> "pending", data |-> EmptyDict, todo |-> {}, added |-> {}, wait |-> 1,
     prev |-> "none"]

InitSched ==
    /\ fs = [NoFiles EXCEPT !.file = FullFile(Put(SetUpAll(1), Key(2), UnreadableUser))]
    /\ now = 0
    /\ nextId = 0
    /\ chats = {}
    /\ offers = {}
    /\ sched = SchedStart
    /\ thr = EmptyDict
    /\ last = Did(0, "none")

(* a loop that an exception of the job ends *)
AfterFaultStops(s) ==
    [s EXCEPT !.pc = "stopped", !.data = EmptyDict, !.todo = {}, !.prev = "failed"]

(* except Exception at the end of reset_tasks: logged, the job returns, *)
(* the schedule sets its next run a day later and the loop sleeps       *)
AfterFault(s) ==
    [s EXCEPT !.pc = "sleep", !.data = EmptyDict, !.todo = {}, !.wait = DayTicks,
              !.prev = "failed"]

(* schedule.run_pending(): the job runs when it is due *)
SchedRunPending ==
    /\ sched.pc = "pending"
    /\ sched' = [sched EXCEPT !.pc = IF sched.wait = 0 THEN "load" ELSE "sleep"]
    /\ last' = Did(0, "run_pending")
    /\ UNCHANGED <<fs, now, nextId, chats, offers, thr>>

(* time.sleep(60) *)
SchedSleep ==
    /\ sched.pc = "sleep"
    /\ sched' = [sched EXCEPT !.pc = "pending",
                              !.wait = IF @ > 0 THEN @ - 1 ELSE 0]
    /\ last' = Did(0, "sleep")
    /\ UNCHANGED <<fs, now, nextId, chats, offers, thr>>

(* data = load_data(), or an exception that leaves load_data *)
CycleLoad(raises) ==
    /\ sched.pc = "load"
    /\ fs' = IF raises THEN fs ELSE LoadData(fs, now).fs
    /\ sched' = IF raises THEN AfterFault(sched)
                 ELSE [sched EXCEPT !.pc = "loop", !.data = Stored, !.todo = DOMAIN Stored,
                                    !.added = {}]
    /\ last' = Did(0, IF raises THEN "reset_failed" ELSE "reset_load")
    /\ UNCHANGED <<now, nextId, chats, offers, thr>>

(* an exception in the loop outside the body of a user *)
CycleLoopRaises ==
    /\ sched.pc = "loop"
    /\ sched.todo # {}
    /\ sched' = AfterFault(sched)
    /\ last' = Did(0, "reset_failed")
    /\ UNCHANGED <<fs, now, nextId, chats, offers, thr>>

(* save_data(data), which logs a failure of its own and returns *)
CycleSave(fails) ==
    /\ sched.pc = "loop"
    /\ sched.todo = {}
    /\ fs' = [SaveData([fs EXCEPT !.write_fails = fails], sched.data)
                 EXCEPT !.write_fails = fs.write_fails]
    /\ sched' = [sched EXCEPT !.pc = "sleep", !.data = EmptyDict, !.wait = DayTicks,
                              !.prev = IF fails THEN "failed" ELSE "ok"]
    /\ last' = Did(0, IF fails THEN "reset_failed" ELSE "reset_tasks")
    /\ UNCHANGED <<now, nextId, chats, offers, thr>>

SchedNext ==
    \/ SchedRunPending
    \/ SchedSleep
    \/ \E raises \in BOOLEAN : CycleLoad(raises)
    \/ \E user_id \in DOMAIN sched.data : ResetUser(user_id)
    \/ CycleLoopRaises
    \/ \E fails \in BOOLEAN : CycleSave(fails)

NextSched ==
    \/ Add(1, <<Milk>>)
    \/ Button(1, ToggleToken(Daily, <<"1">>))
    \/ SchedNext

(* the scheduler thread is never held back for ever *)
SpecSched == InitSched /\ [][NextSched]_vars /\ WF_vars(SchedNext)

CycleFailed == sched.pc = "sleep" /\ sched.prev = "failed" /\ sched.wait = DayTicks

(* C39: the scheduler keeps running after a fault: when a reset cycle    *)
(* has raised in its load, in its loop or in its save, the loop of       *)
(* run_scheduler has not ended, and when the job is next due reset_tasks *)
(* is run again.                                                         *)
SchedulerSurvivesFaults ==
    /\ [](sched.pc # "stopped")
    /\ (CycleFailed ~> (sched.pc = "load"))

(* a cycle has loaded the table after a cycle that failed *)
ResetAfterFaultWitness ==
    /\ sched.pc = "loop"
    /\ sched.prev = "failed"
    /\ sched.data # EmptyDict
====
